---- MODULE Spec2Model ----
(***************************************************************************)
(* APT source-file engine of soplos-repo-selector:                         *)
(*   services/repo_file_manager.py  (parser, generator, safe writer)       *)
(*   services/repo_manager.py       (directory service and its cache)      *)
(*   ui/views/repo_view.py          (the view that edits and applies)      *)
(*                                                                         *)
(* Text is held as Python holds it after split('\n'): a sequence of lines. *)
(* A line is a sequence of atoms.  Every character the code inspects       *)
(* (blank, '#', '[', ']', ':', '=', '/', '.', '-', '_') is an atom of its  *)
(* own; a maximal run of other characters (letters, digits) is one atom.   *)
(***************************************************************************)
EXTENDS Integers, Sequences, FiniteSets, TLC

SP == " "

None == <<"<None>">>

\* ------------------------------------------------------------------------
\* str helpers (Python built-ins used by the code)
\* ------------------------------------------------------------------------

IsSpace(a) == a = SP

RECURSIVE LStrip(_)
LStrip(s) == IF s # <<>> /\ IsSpace(Head(s)) THEN LStrip(Tail(s)) ELSE s

RECURSIVE RStrip(_)
RStrip(s) ==
    IF s # <<>> /\ IsSpace(s[Len(s)]) THEN RStrip(SubSeq(s, 1, Len(s) - 1)) ELSE s

Strip(s) == RStrip(LStrip(s))

\* s.startswith(p)
StartsWith(s, p) == Len(s) >= Len(p) /\ SubSeq(s, 1, Len(p)) = p

\* s.endswith(p)
EndsWith(s, p) == Len(s) >= Len(p) /\ SubSeq(s, Len(s) - Len(p) + 1, Len(s)) = p

\* s[n:]
Drop(s, n) == SubSeq(s, n + 1, Len(s))

\* p in s   (substring test)
Contains(s, p) == \E i \in 1..(Len(s) - Len(p) + 1) : SubSeq(s, i, i + Len(p) - 1) = p

\* length of the maximal prefix of s without blanks (\S+ is greedy)
RECURSIVE WordLen(_)
WordLen(s) == IF s = <<>> \/ IsSpace(Head(s)) THEN 0 ELSE 1 + WordLen(Tail(s))

\* s.split(): the blank-separated words of s
RECURSIVE SplitWords(_)
SplitWords(s) ==
    LET t == LStrip(s)
        n == WordLen(t)
    IN  IF t = <<>> THEN <<>> ELSE <<SubSeq(t, 1, n)>> \o SplitWords(Drop(t, n))

\* sep.join(parts)
RECURSIVE Join(_, _)
Join(parts, sep) ==
    IF parts = <<>> THEN <<>>
    ELSE IF Len(parts) = 1 THEN parts[1]
    ELSE parts[1] \o sep \o Join(Tail(parts), sep)

\* d.get(k, default)
Get(d, k, default) == IF k \in DOMAIN d THEN d[k] ELSE default

\* truthiness of a str-or-None value
Truthy(v) == v # <<>> /\ v # None

\* ------------------------------------------------------------------------
\* Literals of the grammar
\* ------------------------------------------------------------------------

DEB == <<"deb">>
DEB_SRC == <<"deb", "-", "src">>
SIGNED_BY == <<"signed", "-", "by">>
SIGNED_BY_EQ == <<"signed", "-", "by", "=">>
HASH_SP == <<"#", SP>>

\* ------------------------------------------------------------------------
\* RepoFileManager.__init__: the two compiled patterns
\* ------------------------------------------------------------------------

\* comment_pattern = ^\s*#   (re.match: anchored at the start)
comment_pattern(line) == LET t == LStrip(line) IN t # <<>> /\ Head(t) = "#"

NoMatch == [matched |-> FALSE]

\* (\S+)\s+(\S+)\s*(.*?)\s*$  applied to a text that starts at a non-blank
UriDistComps(t) ==
    LET n1 == WordLen(t)
        a1 == Drop(t, n1)
        t2 == LStrip(a1)
        n2 == WordLen(t2)
    IN  IF n1 > 0 /\ a1 # <<>> /\ n2 > 0
        THEN [matched |-> TRUE, uri |-> SubSeq(t, 1, n1), dist |-> SubSeq(t2, 1, n2),
              comps |-> Strip(Drop(t2, n2))]
        ELSE NoMatch

\* (\[.*?\]\s+)? : the positions j of a ']' followed by a blank after which the
\* rest of the pattern still matches; the lazy .*? takes the smallest one.
OptionEnds(rest) ==
    {j \in 2..(Len(rest) - 1) :
        /\ rest[j] = "]"
        /\ IsSpace(rest[j + 1])
        /\ UriDistComps(LStrip(Drop(rest, j))).matched}

Min(S) == CHOOSE x \in S : \A y \in S : x <= y

\* deb_line_pattern = ^\s*(deb|deb-src)\s+(\[.*?\]\s+)?(\S+)\s+(\S+)\s*(.*?)\s*$
\* The groups of the match, or NoMatch.
deb_line_pattern(line) ==
    LET s == LStrip(line)
        ty == IF StartsWith(s, DEB \o <<SP>>) THEN DEB
              ELSE IF StartsWith(s, DEB_SRC \o <<SP>>) THEN DEB_SRC
              ELSE <<>>
        rest == LStrip(Drop(s, Len(ty)))
        ends == IF rest # <<>> /\ Head(rest) = "[" THEN OptionEnds(rest) ELSE {}
        j == Min(ends)
        afterOpt == Drop(rest, j)
        optLen == j + (Len(afterOpt) - Len(LStrip(afterOpt)))
        tail == IF ends = {} THEN UriDistComps(rest)
                ELSE UriDistComps(LStrip(afterOpt))
    IN  IF ty = <<>> \/ ~tail.matched THEN NoMatch
        ELSE [matched |-> TRUE,
              g1 |-> ty,
              g2 |-> IF ends = {} THEN None ELSE SubSeq(rest, 1, optLen),
              g3 |-> tail.uri,
              g4 |-> tail.dist,
              g5 |-> tail.comps]

\* re.search(r'signed-by=([^\]\s]+)', options).group(1), or '' without a match
SignedByStarts(options) ==
    {i \in 1..(Len(options) - 4) :
        /\ SubSeq(options, i, i + 3) = SIGNED_BY_EQ
        /\ options[i + 4] \notin {"]", SP}}

RECURSIVE ValueLen(_)
ValueLen(s) == IF s = <<>> \/ Head(s) \in {"]", SP} THEN 0 ELSE 1 + ValueLen(Tail(s))

SearchSignedBy(options) ==
    LET starts == SignedByStarts(options)
        i == Min(starts)
        v == Drop(options, i + 3)
    IN  IF starts = {} THEN <<>> ELSE SubSeq(v, 1, ValueLen(v))

\* ------------------------------------------------------------------------
\* RepoFileManager._parse_legacy_format
\* ------------------------------------------------------------------------

\* The body of the for loop for one line: the records it appends (none or one).
ParseLegacyLine(raw, line_num, file_path) ==
    LET line0 == Strip(raw)
        isDisabledForm == StartsWith(line0, HASH_SP)
        uncommented == Strip(Drop(line0, 2))
        disabled == isDisabledForm
        line == IF isDisabledForm THEN uncommented ELSE line0
        m == deb_line_pattern(line)
        options == IF m.g2 = None THEN <<>> ELSE m.g2
    IN  IF line0 = <<>> \/ comment_pattern(line0) THEN <<>>
        ELSE IF isDisabledForm /\ ~deb_line_pattern(uncommented).matched THEN <<>>
        ELSE IF ~m.matched THEN <<>>
        ELSE <<[disabled |-> disabled,
                type |-> m.g1,
                uri |-> m.g3,
                distribution |-> m.g4,
                components |-> Strip(m.g5),
                comment |-> <<>>,
                signed_by |-> IF options # <<>> THEN SearchSignedBy(options) ELSE <<>>,
                file |-> file_path,
                format |-> "legacy",
                line |-> line_num,
                raw_options |-> Strip(options)]>>

RECURSIVE ParseLegacyFrom(_, _, _)
ParseLegacyFrom(lines, line_num, file_path) ==
    IF line_num > Len(lines) THEN <<>>
    ELSE ParseLegacyLine(lines[line_num], line_num, file_path)
         \o ParseLegacyFrom(lines, line_num + 1, file_path)

_parse_legacy_format(content, file_path) == ParseLegacyFrom(content, 1, file_path)

\* ------------------------------------------------------------------------
\* RepoFileManager._generate_legacy_content
\* ------------------------------------------------------------------------

LegacyBanner ==
    << <<"#", SP, "Generated", SP, "by", SP, "Soplos", SP, "Repo", SP, "Selector">>,
       <<"#", SP, "Do", SP, "not", SP, "edit", SP, "manually">>,
       <<>> >>

SignedByOption(repo) == <<"[">> \o SIGNED_BY_EQ \o repo.signed_by \o <<"]", SP>>

\* a generator that writes no options (faulty variant)
NoOptions(repo) == <<>>

\* The options text of one record as the generator reconstructs it.
LegacyOptions(repo) ==
    LET raw == Get(repo, "raw_options", <<>>)
        sb == Truthy(Get(repo, "signed_by", None))
        o1 == IF ~Truthy(raw) /\ sb THEN SignedByOption(repo)
              ELSE IF sb /\ ~Contains(raw, SIGNED_BY)
                   THEN Strip(raw) \o <<SP>> \o SignedByOption(repo)
              ELSE raw
    IN  IF Truthy(o1) /\ ~EndsWith(o1, <<SP>>) THEN o1 \o <<SP>> ELSE o1

\* The lines one record contributes: its comment line if any, then its entry.
LegacyLines(repo) ==
    LET prefix == IF Get(repo, "disabled", FALSE) THEN HASH_SP ELSE <<>>
        base == prefix \o repo.type \o <<SP>> \o LegacyOptions(repo)
                \o repo.uri \o <<SP>> \o repo.distribution
        line == IF Truthy(Get(repo, "components", None))
                THEN base \o <<SP>> \o repo.components ELSE base
    IN  IF Truthy(Get(repo, "comment", None))
        THEN << HASH_SP \o repo.comment, line >> ELSE << line >>

RECURSIVE LegacyEntries(_)
LegacyEntries(repos) ==
    IF repos = <<>> THEN <<>> ELSE LegacyLines(Head(repos)) \o LegacyEntries(Tail(repos))

\* '\n'.join(lines) + '\n': the text ends with one empty line after the last entry
_generate_legacy_content(repos) == LegacyBanner \o LegacyEntries(repos) \o << <<>> >>

\* ------------------------------------------------------------------------
\* RepoFileManager._parse_deb822_format
\* ------------------------------------------------------------------------

IsBlank(line) == Strip(line) = <<>>

\* content.strip(): the blank lines before the first and after the last text
\* line go, the first line loses its leading and the last its trailing blanks.
RECURSIVE DropBlankHead(_)
DropBlankHead(lines) ==
    IF lines # <<>> /\ IsBlank(Head(lines)) THEN DropBlankHead(Tail(lines)) ELSE lines

RECURSIVE DropBlankTail(_)
DropBlankTail(lines) ==
    IF lines # <<>> /\ IsBlank(lines[Len(lines)])
    THEN DropBlankTail(SubSeq(lines, 1, Len(lines) - 1)) ELSE lines

StripText(content) ==
    LET t == DropBlankTail(DropBlankHead(content))
        n == Len(t)
    IN  IF n = 0 THEN <<>>
        ELSE IF n = 1 THEN << Strip(t[1]) >>
        ELSE << LStrip(t[1]) >> \o SubSeq(t, 2, n - 1) \o << RStrip(t[n]) >>

\* number of leading lines of a text that are not blank
RECURSIVE RunLen(_)
RunLen(lines) == IF lines = <<>> \/ IsBlank(Head(lines)) THEN 0 ELSE 1 + RunLen(Tail(lines))

\* re.split(r'\n\s*\n', text): the maximal runs of lines between blank lines
RECURSIVE SplitBlocks(_)
SplitBlocks(lines) ==
    LET t == DropBlankHead(lines)
        n == RunLen(t)
    IN  IF t = <<>> THEN <<>> ELSE << SubSeq(t, 1, n) >> \o SplitBlocks(Drop(t, n))

\* str.lower() on the words the grammar and the banner use
Lower(a) ==
    CASE a = "Types" -> "types"
      [] a = "URIs" -> "uris"
      [] a = "Suites" -> "suites"
      [] a = "Components" -> "components"
      [] a = "Signed" -> "signed"
      [] a = "By" -> "by"
      [] a = "Format" -> "format"
      [] a = "Generated" -> "generated"
      [] a = "Soplos" -> "soplos"
      [] a = "Repo" -> "repo"
      [] a = "Selector" -> "selector"
      [] a = "DEB822" -> "deb822"
      [] OTHER -> a

LowerStr(s) == [i \in 1..Len(s) |-> Lower(s[i])]

\* index of the first ':' of a line, 0 when it has none
RECURSIVE ColonAt(_, _)
ColonAt(line, i) ==
    IF i > Len(line) THEN 0 ELSE IF line[i] = ":" THEN i ELSE ColonAt(line, i + 1)

\* the uncommenting loop of a disabled block: line[1:] drops the first character
Uncomment(block) ==
    [i \in 1..Len(block) |->
        IF StartsWith(Strip(block[i]), <<"#">>) THEN Tail(block[i]) ELSE block[i]]

\* fields: the value the loop leaves under key, None when the key was never set
RECURSIVE FieldOf(_, _)
FieldOf(lines, key) ==
    IF lines = <<>> THEN None
    ELSE LET line == Strip(lines[Len(lines)])
             c == ColonAt(line, 1)
         IN  IF c > 0 /\ LowerStr(Strip(SubSeq(line, 1, c - 1))) = key
             THEN Strip(Drop(line, c))
             ELSE FieldOf(SubSeq(lines, 1, Len(lines) - 1), key)

\* a parser that pairs the first type with the first URI and the first suite
\* only (faulty variant)
FirstOnly(repo_types, uris, suites, i, proto, acc) ==
    << [proto EXCEPT !.type = repo_types[1], !.uri = uris[1], !.distribution = suites[1]] >>

\* the three nested loops: one record per (type, uri, suite), types outermost
RECURSIVE Product(_, _, _, _, _, _)
Product(repo_types, uris, suites, i, proto, acc) ==
    LET nu == Len(uris)
        ns == Len(suites)
        t == (i \div (nu * ns)) + 1
        u == ((i \div ns) % nu) + 1
        x == (i % ns) + 1
    IN  IF i >= Len(repo_types) * nu * ns THEN acc
        ELSE Product(repo_types, uris, suites, i + 1, proto,
                     Append(acc, [proto EXCEPT !.type = repo_types[t], !.uri = uris[u],
                                               !.distribution = suites[x]]))

\* the body of the for loop for one block: the records it appends
ParseBlock(block0, block_num, file_path) ==
    LET disabled == StartsWith(LStrip(block0[1]), <<"#">>)
        block == IF disabled THEN Uncomment(block0) ELSE block0
        types == FieldOf(block, <<"types">>)
        uris == FieldOf(block, <<"uris">>)
        suites == FieldOf(block, <<"suites">>)
        comps == FieldOf(block, <<"components">>)
        sb == FieldOf(block, SIGNED_BY)
        proto == [disabled |-> disabled, type |-> <<>>, uri |-> <<>>,
                  distribution |-> <<>>,
                  components |-> IF comps = None THEN <<>> ELSE Strip(comps),
                  comment |-> <<>>,
                  signed_by |-> IF sb = None THEN <<>> ELSE sb,
                  file |-> file_path, format |-> "deb822", block |-> block_num]
    IN  IF types = None \/ uris = None \/ suites = None THEN <<>>
        ELSE Product(SplitWords(types), SplitWords(uris), SplitWords(suites), 0, proto, <<>>)

RECURSIVE ParseBlocksFrom(_, _, _)
ParseBlocksFrom(blocks, block_num, file_path) ==
    IF block_num > Len(blocks) THEN <<>>
    ELSE ParseBlock(blocks[block_num], block_num, file_path)
         \o ParseBlocksFrom(blocks, block_num + 1, file_path)

_parse_deb822_format(content, file_path) ==
    ParseBlocksFrom(SplitBlocks(StripText(content)), 1, file_path)

\* ------------------------------------------------------------------------
\* Python's order on str (sorted() compares code points)
\* ------------------------------------------------------------------------

\* the characters of the texts handled here, in code-point order
CodePoints ==
    <<" ", "#", "-", ".", "/", "0", "1", "2", "3", "4", "5", "6", "7", "8", "9",
      ":", "=", "@", "[", "]", "_",
      "a", "b", "c", "d", "e", "f", "g", "h", "i", "j", "k", "l", "m",
      "n", "o", "p", "q", "r", "s", "t", "u", "v", "w", "x", "y", "z">>

Ord(c) == CHOOSE i \in 1..Len(CodePoints) : CodePoints[i] = c

\* the characters of an atom: a word is spelled out, any other atom is one character
Spelling(a) ==
    CASE a = "deb" -> <<"d", "e", "b">>
      [] a = "src" -> <<"s", "r", "c">>
      [] a = "http" -> <<"h", "t", "t", "p">>
      [] a = "org" -> <<"o", "r", "g">>
      [] a = "soplos" -> <<"s", "o", "p", "l", "o", "s">>
      [] a = "stable" -> <<"s", "t", "a", "b", "l", "e">>
      [] a = "testing" -> <<"t", "e", "s", "t", "i", "n", "g">>
      [] a = "main" -> <<"m", "a", "i", "n">>
      [] a = "contrib" -> <<"c", "o", "n", "t", "r", "i", "b">>
      [] a = "list" -> <<"l", "i", "s", "t">>
      [] a = "sources" -> <<"s", "o", "u", "r", "c", "e", "s">>
      [] a = "debian" -> <<"d", "e", "b", "i", "a", "n">>
      [] a = "extra" -> <<"e", "x", "t", "r", "a">>
      [] a = "bak" -> <<"b", "a", "k">>
      [] a = "security" -> <<"s", "e", "c", "u", "r", "i", "t", "y">>
      [] a = "backports" -> <<"b", "a", "c", "k", "p", "o", "r", "t", "s">>
      [] a = "updates" -> <<"u", "p", "d", "a", "t", "e", "s">>
      [] a = "proposed" -> <<"p", "r", "o", "p", "o", "s", "e", "d">>
      [] a = "sid" -> <<"s", "i", "d">>
      [] a = "https" -> <<"h", "t", "t", "p", "s">>
      [] OTHER -> <<a>>

RECURSIVE Chars(_)
Chars(s) == IF s = <<>> THEN <<>> ELSE Spelling(Head(s)) \o Chars(Tail(s))

RECURSIVE CharsLess(_, _)
CharsLess(x, y) ==
    IF y = <<>> THEN FALSE
    ELSE IF x = <<>> THEN TRUE
    ELSE IF Head(x) = Head(y) THEN CharsLess(Tail(x), Tail(y))
    ELSE Ord(Head(x)) < Ord(Head(y))

StrLess(x, y) == CharsLess(Chars(x), Chars(y))

\* sorted(list(set(values)))
RECURSIVE SortedSet(_)
SortedSet(S) ==
    IF S = {} THEN <<>>
    ELSE LET m == CHOOSE x \in S : \A y \in S \ {x} : StrLess(x, y)
         IN  <<m>> \o SortedSet(S \ {m})

\* ------------------------------------------------------------------------
\* RepoFileManager._generate_deb822_content
\* ------------------------------------------------------------------------

Deb822Banner ==
    << <<"#", SP, "Generated", SP, "by", SP, "Soplos", SP, "Repo", SP, "Selector">>,
       <<"#", SP, "Format", ":", SP, "DEB822">>,
       <<>> >>

Range(f) == {f[i] : i \in DOMAIN f}

\* the values of one key over a group, each once, in first-seen order
RECURSIVE FirstSeen(_, _, _, _)
FirstSeen(group, key, skipEmpty, acc) ==
    IF group = <<>> THEN acc
    ELSE LET v == Get(Head(group), key, <<>>)
         IN  FirstSeen(Tail(group), key, skipEmpty,
                       IF v \in Range(acc) \/ (skipEmpty /\ ~Truthy(v)) THEN acc
                       ELSE Append(acc, v))

\* the first truthy signed_by of a group, '' when there is none
RECURSIVE FirstSignedBy(_)
FirstSignedBy(group) ==
    IF group = <<>> THEN <<>>
    ELSE IF Truthy(Get(Head(group), "signed_by", None)) THEN Head(group).signed_by
    ELSE FirstSignedBy(Tail(group))

\* a group that counts as disabled only when all its members are (faulty
\* variant)
AllDisabled(group) == \A i \in 1..Len(group) : Get(group[i], "disabled", FALSE)

AnyDisabled(group) == \E i \in 1..Len(group) : Get(group[i], "disabled", FALSE)

\* the lines of one stanza and the empty line that follows it
StanzaLines(disabled, types, uris, suites, components, signed_by) ==
    LET prefix == IF disabled THEN HASH_SP ELSE <<>>
    IN  << prefix \o <<"Types", ":", SP>> \o Join(types, <<SP>>),
           prefix \o <<"URIs", ":", SP>> \o Join(uris, <<SP>>),
           prefix \o <<"Suites", ":", SP>> \o Join(suites, <<SP>>) >>
        \o (IF components # <<>>
            THEN << prefix \o <<"Components", ":", SP>> \o Join(components, <<SP>>) >>
            ELSE <<>>)
        \o (IF Truthy(signed_by)
            THEN << prefix \o <<"Signed", "-", "By", ":", SP>> \o signed_by >>
            ELSE <<>>)
        \o << <<>> >>

\* a generator that takes every record for a member of block 1 (faulty variant)
OneBlock(r) == 1

\* b = r.get('block', 0) or 0
BlockOf(r) == Get(r, "block", 0)

\* one block of the block-preserving branch
PreservedStanza(group) ==
    StanzaLines(AnyDisabled(group),
                FirstSeen(group, "type", FALSE, <<>>),
                FirstSeen(group, "uri", FALSE, <<>>),
                FirstSeen(group, "distribution", FALSE, <<>>),
                FirstSeen(group, "components", TRUE, <<>>),
                FirstSignedBy(group))

\* for b in sorted(blocks.keys()): ...
RECURSIVE PreservedStanzas(_, _)
PreservedStanzas(repos, keys) ==
    IF keys = {} THEN <<>>
    ELSE LET b == Min(keys)
             InBlock(r) == BlockOf(r) = b
         IN  PreservedStanza(SelectSeq(repos, InBlock)) \o PreservedStanzas(repos, keys \ {b})

\* a grouping that compares the disabled flags only (faulty variant)
SameDisabled(repo1, repo2) ==
    Get(repo1, "disabled", FALSE) = Get(repo2, "disabled", FALSE)

\* RepoFileManager._repos_compatible_for_grouping
_repos_compatible_for_grouping(repo1, repo2) ==
    /\ Get(repo1, "signed_by", None) = Get(repo2, "signed_by", None)
    /\ Get(repo1, "disabled", FALSE) = Get(repo2, "disabled", FALSE)

\* RepoFileManager._group_similar_repos: each record joins the first group whose
\* first record is compatible with it, or starts a new group
RECURSIVE GroupFrom(_, _)
GroupFrom(repos, groups) ==
    IF repos = <<>> THEN groups
    ELSE LET repo == Head(repos)
             fits == {g \in 1..Len(groups) :
                        _repos_compatible_for_grouping(repo, groups[g][1])}
         IN  GroupFrom(Tail(repos),
                       IF fits = {} THEN Append(groups, <<repo>>)
                       ELSE [groups EXCEPT ![Min(fits)] = Append(@, repo)])

_group_similar_repos(repos) == GroupFrom(repos, <<>>)

\* one group of the fallback branch
FallbackStanza(group) ==
    StanzaLines(AnyDisabled(group),
                SortedSet({group[i].type : i \in 1..Len(group)}),
                SortedSet({group[i].uri : i \in 1..Len(group)}),
                SortedSet({group[i].distribution : i \in 1..Len(group)}),
                SortedSet({group[i].components : i \in 1..Len(group)} \ {<<>>, None}),
                FirstSignedBy(group))

RECURSIVE FallbackStanzas(_)
FallbackStanzas(groups) ==
    IF groups = <<>> THEN <<>>
    ELSE FallbackStanza(Head(groups)) \o FallbackStanzas(Tail(groups))

\* '\n'.join(lines): the last line is the empty line closing the last stanza
_generate_deb822_content(repos) ==
    IF \E i \in 1..Len(repos) : "block" \in DOMAIN repos[i]
    THEN Deb822Banner \o PreservedStanzas(repos, {BlockOf(repos[i]) : i \in 1..Len(repos)})
    ELSE Deb822Banner \o FallbackStanzas(_group_similar_repos(repos))

\* ------------------------------------------------------------------------
\* Paths (pathlib.Path / os.path on the atom form of a path)
\* ------------------------------------------------------------------------

\* index of the last occurrence of atom a in s, 0 when there is none
RECURSIVE LastIndexOf(_, _)
LastIndexOf(s, a) ==
    IF s = <<>> THEN 0 ELSE IF s[Len(s)] = a THEN Len(s)
    ELSE LastIndexOf(SubSeq(s, 1, Len(s) - 1), a)

\* Path(p).parent
Parent(path) == SubSeq(path, 1, LastIndexOf(path, "/") - 1)

\* Path(p).name
BaseName(path) == Drop(path, LastIndexOf(path, "/"))

\* Path(p).suffix: from the last '.' of the name (a leading '.' is no suffix)
Suffix(path) ==
    LET name == BaseName(path)
        k == LastIndexOf(name, ".")
    IN  IF k > 1 THEN Drop(name, k - 1) ELSE <<>>

DOT_LIST == <<".", "list">>
DOT_SOURCES == <<".", "sources">>

\* RepoManager.__init__: the standard paths
sources_list == <<"/", "etc", "/", "apt", "/", "sources", ".", "list">>
sources_parts == <<"/", "etc", "/", "apt", "/", "sources", ".", "list", ".", "d">>

\* os.path.join(directory, name)
PathJoin(directory, name) == directory \o <<"/">> \o name

\* a file that does not exist
Absent == << <<"<absent>">> >>

\* a file that exists and whose read_text raises (no permission, not UTF-8)
Unreadable == << <<"<unreadable>">> >>

\* ------------------------------------------------------------------------
\* RepoFileManager.read_sources_file
\* ------------------------------------------------------------------------

Deb822Keys == { <<"Types", ":">>, <<"URIs", ":">>, <<"Suites", ":">>, <<"Components", ":">> }

\* RepoFileManager._is_deb822_format: some line starts, after blanks, with a key
_is_deb822_format(content) ==
    \E i \in 1..Len(content) : \E k \in Deb822Keys : StartsWith(LStrip(content[i]), k)

\* the records of file_path, given the content the file has (Absent: no file)
read_sources_file(content, file_path) ==
    IF content = Absent \/ content = Unreadable THEN <<>>
    ELSE IF Suffix(file_path) = DOT_SOURCES \/ _is_deb822_format(content)
         THEN _parse_deb822_format(content, file_path)
         ELSE _parse_legacy_format(content, file_path)

\* the format choice shared by write_sources_file and the batch writer
UseDeb822(file_path, file_repos) ==
    \/ Suffix(file_path) = DOT_SOURCES
    \/ \E i \in 1..Len(file_repos) : Get(file_repos[i], "format", "") = "deb822"

\* a generator that writes its group flag back into the records (faulty
\* variant)
MarkedByGroup(file_repos) ==
    [k \in 1..Len(file_repos) |->
        [file_repos[k] EXCEPT !.disabled =
            \E j \in 1..Len(file_repos) :
                /\ BlockOf(file_repos[j]) = BlockOf(file_repos[k])
                /\ Get(file_repos[j], "disabled", FALSE)]]

\* the record list after a generator ran over it: both generators only read
\* the records (get and subscript), they assign to none
RecordsAfterGenerate(file_repos) == file_repos

GenerateContent(file_path, file_repos) ==
    IF UseDeb822(file_path, file_repos)
    THEN _generate_deb822_content(file_repos)
    ELSE _generate_legacy_content(file_repos)

\* ------------------------------------------------------------------------
\* RepoFileManager.write_multiple_sources_files
\* ------------------------------------------------------------------------
\* repos_by_file is a dict in insertion order: a sequence of [file, repos].
\* What the file system and the elevation command do during one call is the
\* outcome the environment picks:
\*   stage_error        staging a temp file raises
\*   direct_ok          every shutil.move and chmod succeeds
\*   move_error(at)     the at-th shutil.move raises; the moves before it are done
\*   chmod_error        a chmod after the moves raises; every move is done
\*   script_error       creating or writing the script raises
\*   pkexec_missing     subprocess.run raises: there is no pkexec command
\*   pkexec_declined    pkexec exits non-zero without running the script
\*   script_failed(placed)  a command of the script fails under set -e after
\*                      placed files were moved; pkexec exits non-zero
\*   pkexec_ok          the script ran to its end

\* a writer that never finds its parents writable (faulty variant)
NeverWritable(repos_by_file, writable) == FALSE

\* parents_writable = all(os.access(str(p), os.W_OK) for p in all_parents)
ParentsWritable(repos_by_file, writable) ==
    \A i \in 1..Len(repos_by_file) : Parent(repos_by_file[i].file) \in writable

\* the outcomes the environment can pick for a batch
Outcomes(repos_by_file, writable) ==
    LET n == Len(repos_by_file)
    IN  {[kind |-> "stage_error"] : k \in 1..n}
        \cup (IF ParentsWritable(repos_by_file, writable)
              THEN {[kind |-> "direct_ok"]}
                   \cup {[kind |-> "move_error", at |-> k] : k \in 1..n}
                   \cup {[kind |-> "chmod_error"] : k \in 1..n}
              ELSE {[kind |-> "script_error"], [kind |-> "pkexec_missing"],
                    [kind |-> "pkexec_declined"], [kind |-> "pkexec_ok"]}
                   \cup {[kind |-> "script_failed", placed |-> k] : k \in 0..n})

\* the disk after the first count temp files were moved onto their destinations
Placed(disk, repos_by_file, count) ==
    [f \in DOMAIN disk |->
        LET hits == {i \in 1..count : repos_by_file[i].file = f}
        IN  IF hits = {} THEN disk[f]
            ELSE GenerateContent(f, repos_by_file[Min(hits)].repos)]

\* a writer whose moves all happen whatever the outcome (faulty variant)
EveryFileMoved(repos_by_file, outcome) == Len(repos_by_file)

\* number of files moved into place under an outcome
MovedCount(repos_by_file, outcome) ==
    CASE outcome.kind = "direct_ok" -> Len(repos_by_file)
      [] outcome.kind = "chmod_error" -> Len(repos_by_file)
      [] outcome.kind = "pkexec_ok" -> Len(repos_by_file)
      [] outcome.kind = "move_error" -> outcome.at - 1
      [] outcome.kind = "script_failed" -> outcome.placed
      [] OTHER -> 0

\* the call: its return value, the disk it leaves and the number of times it
\* ran the elevation command
write_multiple_sources_files(disk, writable, repos_by_file, outcome) ==
    [ret |-> outcome.kind \in {"direct_ok", "pkexec_ok"},
     disk |-> Placed(disk, repos_by_file, MovedCount(repos_by_file, outcome)),
     elevations |-> IF outcome.kind \in {"pkexec_missing", "pkexec_declined",
                                         "script_failed", "pkexec_ok"}
                    THEN 1 ELSE 0]

\* ------------------------------------------------------------------------
\* The writers in detail: temp files, the script, exceptions 
\* ------------------------------------------------------------------------

\* where staging one file can raise: tempfile.mkstemp, the write into the
\* temp file, the exists/stat/chmod lines after it
StageSteps == {"mkstemp", "write", "chmod"}

\* the outcomes of a batch with the staging failures told apart
WriteOutcomes(repos_by_file, writable) ==
    {o \in Outcomes(repos_by_file, writable) : o.kind # "stage_error"}
    \cup {[kind |-> "stage_error", at |-> k, step |-> st] :
            k \in 1..Len(repos_by_file), st \in StageSteps}

\* the temp files mkstemp created, by position in the batch
TempsCreated(repos_by_file, outcome) ==
    IF outcome.kind = "stage_error"
    THEN 1..(IF outcome.step = "mkstemp" THEN outcome.at - 1 ELSE outcome.at)
    ELSE 1..Len(repos_by_file)

\* the temp files temp_items holds: a file is appended after its chmod
TempItems(repos_by_file, outcome) ==
    IF outcome.kind = "stage_error" THEN 1..(outcome.at - 1) ELSE 1..Len(repos_by_file)

\* the temp file the handler around the write unlinks before it re-raises
UnlinkedByWriteHandler(outcome) ==
    IF outcome.kind = "stage_error" /\ outcome.step = "write" THEN {outcome.at} ELSE {}

\* the temp files of a batch call that are on disk when it returns: the
\* failure paths unlink the files of temp_items that still exist
TempsLeft(repos_by_file, outcome) ==
    LET moved == 1..MovedCount(repos_by_file, outcome)
        failed == outcome.kind \notin {"direct_ok", "pkexec_ok"}
    IN  ((TempsCreated(repos_by_file, outcome) \ moved) \ UnlinkedByWriteHandler(outcome))
        \ (IF failed THEN TempItems(repos_by_file, outcome) ELSE {})

\* the outcomes in which the script file may have been created
ScriptKinds == {"script_error", "pkexec_missing", "pkexec_declined", "script_failed", "pkexec_ok"}

\* the outcomes whose path unlinks the script: the handler at 520-526, the
\* non-zero branch at 508-511, the success branch at 515-518
ScriptUnlinkedKinds ==
    {"script_error", "pkexec_missing"} \cup {"pkexec_declined", "script_failed"} \cup {"pkexec_ok"}

\* the script is on disk when the call returns
ScriptLeft(outcome) == outcome.kind \in ScriptKinds \ ScriptUnlinkedKinds

\* the outcomes of _write_file_safely for one file
OneOutcomes(file_path, writable) ==
    {[kind |-> "mkdir_error"], [kind |-> "mkstemp_error"], [kind |-> "write_error"],
     [kind |-> "chmod_error"]}
    \cup (IF Parent(file_path) \in writable
          THEN {[kind |-> "direct_ok"], [kind |-> "move_error"]}
          ELSE {[kind |-> "pkexec_missing"], [kind |-> "pkexec_declined"],
                [kind |-> "pkexec_ok"]})

\* RepoFileManager._write_file_safely: the temp file exists after mkstemp; the
\* move takes it away; the handler at 416-422 unlinks it on every exception
_write_file_safely(disk, writable, file_path, content, outcome) ==
    LET ok == outcome.kind \in {"direct_ok", "pkexec_ok"}
        created == outcome.kind \notin {"mkdir_error", "mkstemp_error"}
        unlinked == outcome.kind \in {"write_error", "chmod_error", "move_error",
                                      "pkexec_missing", "pkexec_declined"}
    IN  [ret |-> ok,
         disk |-> IF ok THEN [disk EXCEPT ![file_path] = content] ELSE disk,
         temps |-> IF created /\ ~ok /\ ~unlinked THEN {1} ELSE {},
         script |-> FALSE,
         elevations |-> IF outcome.kind \in {"pkexec_missing", "pkexec_declined", "pkexec_ok"}
                        THEN 1 ELSE 0]

\* RepoFileManager.write_sources_file: the format is chosen over all records
\* given, the content is generated from those of the file
write_sources_file(disk, writable, file_path, repos, outcome) ==
    LET OfFile(r) == Get(r, "file", None) = file_path
        file_repos == SelectSeq(repos, OfFile)
        content == IF UseDeb822(file_path, repos)
                   THEN _generate_deb822_content(file_repos)
                   ELSE _generate_legacy_content(file_repos)
    IN  _write_file_safely(disk, writable, file_path, content, outcome)

\* ------------------------------------------------------------------------
\* RepoManager
\* ------------------------------------------------------------------------

\* s.replace(a, b) for single characters
ReplaceAtom(s, a, b) == [i \in 1..Len(s) |-> IF s[i] = a THEN b ELSE s[i]]

\* index where the last occurrence of p in s starts, 0 when there is none
LastOccurrence(s, p) ==
    LET at == {i \in 1..(Len(s) - Len(p) + 1) : SubSeq(s, i, i + Len(p) - 1) = p}
    IN  IF at = {} THEN 0 ELSE CHOOSE i \in at : \A j \in at : j <= i

\* index of the first occurrence of atom a in s, 0 when there is none
FirstIndexOf(s, a) ==
    LET at == {i \in 1..Len(s) : s[i] = a}
    IN  IF at = {} THEN 0 ELSE Min(at)

\* RepoManager._determine_file_for_repo
_determine_file_for_repo(repo) ==
    LET uri == Get(repo, "uri", <<>>)
        suite == Get(repo, "distribution", <<>>)
        k == LastOccurrence(uri, <<":", "/", "/">>)
        afterScheme == IF k = 0 THEN uri ELSE Drop(uri, k + 2)
        slash == FirstIndexOf(afterScheme, "/")
        domain == IF slash = 0 THEN afterScheme ELSE SubSeq(afterScheme, 1, slash - 1)
        name == ReplaceAtom(ReplaceAtom(domain \o <<"-">> \o suite, ".", "_"), "/", "-")
    IN  IF Contains(uri, <<"soplos">>)
        THEN PathJoin(sources_parts, <<"soplos">> \o DOT_LIST)
        ELSE PathJoin(sources_parts, name \o DOT_LIST)

\* the first loop of save_repos: every record without a file is given one
AssignFiles(repos) ==
    [i \in 1..Len(repos) |->
        IF Truthy(Get(repos[i], "file", None)) THEN repos[i]
        ELSE [k \in DOMAIN repos[i] \cup {"file"} |->
                IF k = "file" THEN _determine_file_for_repo(repos[i]) ELSE repos[i][k]]]

\* a grouping that hands every record to the file of the first (faulty
\* variant)
OneGroup(repos, acc) ==
    IF repos = <<>> THEN acc ELSE << [file |-> Head(repos).file, repos |-> repos] >>

\* repos_by_file: the records of each file, files in first-appearance order
RECURSIVE GroupByFile(_, _)
GroupByFile(repos, acc) ==
    IF repos = <<>> THEN acc
    ELSE LET r == Head(repos)
             at == {i \in 1..Len(acc) : acc[i].file = r.file}
         IN  GroupByFile(Tail(repos),
                         IF at = {} THEN Append(acc, [file |-> r.file, repos |-> <<r>>])
                         ELSE [acc EXCEPT ![Min(at)].repos = Append(@, r)])

\* the names of the fragment directory from the last to the first (faulty
\* variant: the listing is not sorted)
ListedBackwards(disk) ==
    LET names == SortedSet({BaseName(f) : f \in {g \in DOMAIN disk :
                                disk[g] # Absent /\ Parent(g) = sources_parts}})
    IN  [i \in 1..Len(names) |-> names[Len(names) + 1 - i]]

\* the file names of the fragment directory that exist, sorted(os.listdir(...))
FragmentNames(disk) ==
    SortedSet({BaseName(f) : f \in {g \in DOMAIN disk :
                                    disk[g] # Absent /\ Parent(g) = sources_parts}})

RECURSIVE ReadFragments(_, _)
ReadFragments(disk, names) ==
    IF names = <<>> THEN <<>>
    ELSE LET filename == Head(names)
             file_path == PathJoin(sources_parts, filename)
         IN  (IF EndsWith(filename, DOT_LIST) \/ EndsWith(filename, DOT_SOURCES)
              THEN read_sources_file(disk[file_path], file_path) ELSE <<>>)
             \o ReadFragments(disk, Tail(names))

\* the reading half of RepoManager.get_all_repos (no usable cache)
ReadAll(disk) ==
    (IF disk[sources_list] # Absent
     THEN read_sources_file(disk[sources_list], sources_list) ELSE <<>>)
    \o ReadFragments(disk, FragmentNames(disk))

\* ------------------------------------------------------------------------
\* State
\* ------------------------------------------------------------------------

VARIABLES
    disk,             \* file system: path -> text, or Absent
    writable,         \* the directories os.access(dir, W_OK) accepts
    repo_cache,       \* RepoManager.repo_cache
    cache_valid,      \* RepoManager.cache_valid
    repos,            \* RepoView.repos
    repos_is_cache,   \* RepoView.repos and RepoManager.repo_cache are one list object
    apply_sensitive,  \* RepoView.apply_btn is sensitive
    ret,              \* result of the last save_repos call: "none", "True", "False"
    elevations,       \* runs of the elevation command during the last batch write
    outcome,          \* what the environment did during the last batch write
    batch,            \* the destination files of the last batch write
    source,           \* parser/generator run: what the input text was written from
    text,             \*   the text read first
    file_path,        \*   the file it belongs to
    parsed,           \*   records of the first read
    edited,           \*   the records after the user's switch
    toggled,          \*   index of the switched record, 0 when none
    generated,        \*   text generated from edited
    reparsed,         \*   records read from generated
    stage,            \*   "idle", "input", "parsed", "edited", "generated", "reparsed"
    op,               \* direct call of a service: the operation called last, "none"
    result            \*   what it returned and left behind

sysvars == <<disk, writable, repo_cache, cache_valid, repos, repos_is_cache,
             apply_sensitive, ret, elevations, outcome, batch>>
runvars == <<source, text, file_path, parsed, edited, toggled, generated, reparsed, stage>>
callvars == <<op, result>>
vars == <<sysvars, runvars, callvars>>

\* self.repo_cache = None
NoCache == << [none |-> TRUE] >>

\* ------------------------------------------------------------------------
\* Bounds and the values the model draws from
\* ------------------------------------------------------------------------

\* longest list the view is let to grow to
MaxRepos == 2
\* most lines of a legacy input text
MaxLines == 2
\* most stanzas of a DEB822 input text
MaxStanzas == 2

URI_A == <<"http", ":", "/", "/", "a">>
URI_B == <<"http", ":", "/", "/", "b">>
URI_A_ORG == <<"http", ":", "/", "/", "a", ".", "org", "/", "debian">>
URI_SOPLOS == <<"http", ":", "/", "/", "soplos", ".", "org", "/", "repo">>
STABLE == <<"stable">>
TESTING == <<"testing">>
MAIN == <<"main">>
MAIN_CONTRIB == <<"main", SP, "contrib">>
KEY == <<"/", "k">>
OPT_ARCH == <<"[", "arch", "=", "x", "]">>
OPT_SIGNED == <<"[">> \o SIGNED_BY_EQ \o KEY \o <<"]">>

extra_sources == PathJoin(sources_parts, <<"extra">> \o DOT_SOURCES)

\* RepoEditDialog.get_repo_data for a new repository (no repo_data given)
NewRepo(type, uri, distribution, components, signed_by) ==
    [type |-> type, uri |-> uri, distribution |-> distribution,
     components |-> components, signed_by |-> signed_by, comment |-> <<>>,
     disabled |-> FALSE, file |-> None, format |-> "legacy"]

\* what the user enters in the Add dialog
NewRepos == { NewRepo(DEB, URI_A_ORG, STABLE, MAIN, <<>>) }

Paths == {sources_list} \cup {_determine_file_for_repo(r) : r \in NewRepos}

Dirs == {Parent(f) : f \in Paths}

\* what os.access can say: an ordinary user (nothing writable), a user who owns
\* the fragment directory only, root (everything writable)
WritableChoices == { {}, {sources_parts}, Dirs }

\* one legacy entry line
LegacyEntry(type, options, uri, distribution, components) ==
    type \o <<SP>> \o (IF options = <<>> THEN <<>> ELSE options \o <<SP>>)
    \o uri \o <<SP>> \o distribution
    \o (IF components = <<>> THEN <<>> ELSE <<SP>> \o components)

\* one DEB822 stanza
Stanza(disabled, types, uris, suites, components, signed_by) ==
    LET prefix == IF disabled THEN HASH_SP ELSE <<>>
    IN  << prefix \o <<"Types", ":", SP>> \o types,
           prefix \o <<"URIs", ":", SP>> \o uris,
           prefix \o <<"Suites", ":", SP>> \o suites >>
        \o (IF components = <<>> THEN <<>>
            ELSE << prefix \o <<"Components", ":", SP>> \o components >>)
        \o (IF signed_by = <<>> THEN <<>>
            ELSE << prefix \o <<"Signed", "-", "By", ":", SP>> \o signed_by >>)

\* the file system the program is started on: a main file of one legacy entry
InitialDisks ==
    LET none == [f \in Paths |-> Absent]
        e1 == LegacyEntry(DEB_SRC, OPT_SIGNED, URI_A_ORG, STABLE, MAIN)
    IN  { [none EXCEPT ![sources_list] = <<e1, <<>> >>] }

\* ------------------------------------------------------------------------
\* RepoManager.get_all_repos / save_repos on the state
\* ------------------------------------------------------------------------

\* a service that reads the files on every call (faulty variant)
AlwaysRead(use_cache) ==
    [repos |-> ReadAll(disk), repo_cache |-> ReadAll(disk), cache_valid |-> TRUE, read |-> TRUE]

\* RepoManager.get_all_repos: the list returned, the cache it leaves, whether
\* the returned list is the cached list object, and whether files were read
get_all_repos(use_cache) ==
    IF use_cache /\ cache_valid /\ repo_cache # NoCache
    THEN [repos |-> repo_cache, repo_cache |-> repo_cache, cache_valid |-> cache_valid,
          read |-> FALSE]
    ELSE LET read == ReadAll(disk)
         IN  [repos |-> read, repo_cache |-> read, cache_valid |-> TRUE, read |-> TRUE]

\* RepoManager.save_repos(repos_arg) under one outcome of the environment.
\* arg_is_cache: the list passed is the list object the cache holds.
\* The records are dicts changed in place, so the caller's list (repos) and,
\* when it is the same object, the cached list show the assigned files.
save_repos(repos_arg, arg_is_cache, env) ==
    LET assigned == AssignFiles(repos_arg)
        repos_by_file == GroupByFile(assigned, <<>>)
        w == write_multiple_sources_files(disk, writable, repos_by_file, env)
    IN  [ret |-> w.ret,
         disk |-> w.disk,
         elevations |-> w.elevations,
         batch |-> {repos_by_file[i].file : i \in 1..Len(repos_by_file)},
         repos |-> assigned,
         repo_cache |-> IF w.ret \/ arg_is_cache THEN assigned ELSE repo_cache,
         cache_valid |-> IF w.ret THEN TRUE ELSE cache_valid,
         is_cache |-> w.ret \/ arg_is_cache]

SaveOutcomes(repos_arg) == Outcomes(GroupByFile(AssignFiles(repos_arg), <<>>), writable)

\* ------------------------------------------------------------------------
\* RepoView: the handlers
\* ------------------------------------------------------------------------

\* a handler that saves nothing: the disk stays, and there is no save result
NoSave ==
    /\ ret' = "none"
    /\ elevations' = 0
    /\ outcome' = [kind |-> "none"]
    /\ batch' = {}
    /\ UNCHANGED <<disk, writable, runvars, callvars>>

\* RepoView.refresh_repos (the Refresh button)
Refresh ==
    LET g == ReadAll(disk)
    IN  /\ repos' = g
        /\ repo_cache' = g
        /\ cache_valid' = TRUE
        /\ repos_is_cache' = TRUE
        /\ apply_sensitive' = FALSE
        /\ NoSave

\* the view's list changed in place: the cached list changes with it when it
\* is the same object
ReposBecome(new) ==
    /\ repos' = new
    /\ repo_cache' = IF repos_is_cache THEN new ELSE repo_cache
    /\ UNCHANGED <<cache_valid, repos_is_cache>>

\* RepoRow._on_switch_state_set and RepoView._on_repo_changed
Toggle(i) ==
    /\ i \in 1..Len(repos)
    /\ ReposBecome([repos EXCEPT ![i].disabled = ~@])
    /\ apply_sensitive' = TRUE
    /\ NoSave

\* RepoView._on_add_clicked, the dialog answered with Save
Add(r) ==
    /\ Len(repos) < MaxRepos
    /\ ReposBecome(Append(repos, r))
    /\ apply_sensitive' = TRUE
    /\ NoSave

\* list.remove(x): the first element equal to x goes
RemoveFirst(list, x) ==
    LET k == Min({j \in 1..Len(list) : list[j] = x})
    IN  SubSeq(list, 1, k - 1) \o Drop(list, k)

\* RepoView._on_delete_repo, the dialog answered with OK
Delete(i) ==
    /\ i \in 1..Len(repos)
    /\ ReposBecome(RemoveFirst(repos, repos[i]))
    /\ apply_sensitive' = TRUE
    /\ NoSave

\* RepoView._on_apply_clicked: save_repos, then refresh_repos when it succeeded
Apply(env) ==
    /\ apply_sensitive
    /\ \E sv \in {save_repos(repos, repos_is_cache, env)} :
          /\ disk' = sv.disk
          /\ ret' = IF sv.ret THEN "True" ELSE "False"
          /\ elevations' = sv.elevations
          /\ outcome' = env
          /\ batch' = sv.batch
          /\ repos' = IF sv.ret THEN ReadAll(sv.disk) ELSE sv.repos
          /\ repo_cache' = IF sv.ret THEN repos' ELSE sv.repo_cache
          /\ cache_valid' = sv.cache_valid
          /\ repos_is_cache' = sv.is_cache
          /\ apply_sensitive' = ~sv.ret
    /\ UNCHANGED <<writable, runvars, callvars>>

\* no service was called directly
CallIdle == op = "none" /\ result = [raised |-> FALSE]

RunIdle ==
    /\ source = <<>> /\ text = <<>> /\ file_path = <<>> /\ parsed = <<>> /\ edited = <<>>
    /\ toggled = 0 /\ generated = <<>> /\ reparsed = <<>> /\ stage = "idle"

\* the state after MainWindow built its views: RepoView.__init__ has refreshed
Init ==
    /\ disk \in InitialDisks
    /\ writable \in WritableChoices
    /\ repos = ReadAll(disk)
    /\ repo_cache = repos
    /\ cache_valid = TRUE
    /\ repos_is_cache = TRUE
    /\ apply_sensitive = FALSE
    /\ ret = "none"
    /\ elevations = 0
    /\ outcome = [kind |-> "none"]
    /\ batch = {}
    /\ RunIdle
    /\ CallIdle

Next ==
    \/ Refresh
    \/ \E i \in 1..MaxRepos : Toggle(i)
    \/ \E r \in NewRepos : Add(r)
    \/ \E i \in 1..MaxRepos : Delete(i)
    \/ \E env \in SaveOutcomes(repos) : Apply(env)

Spec == Init /\ [][Next]_vars

\* ------------------------------------------------------------------------
\* RepoFileManager alone: read a file, switch a record, generate, read again
\* ------------------------------------------------------------------------

NOTE == <<"#", SP, "note">>

\* what a line of a legacy input is written from
LegacyLine(kind, type, options, uri, distribution, components) ==
    [kind |-> kind, type |-> type, options |-> options, uri |-> uri,
     distribution |-> distribution, components |-> components]

\* kind: "entry" an entry, "off" an entry behind '# ', "comment", "blank",
\* "bad" an entry that lacks its distribution
LegacyChoices ==
    { LegacyLine("entry", DEB, <<>>, URI_A_ORG, STABLE, MAIN),
      LegacyLine("entry", DEB_SRC, OPT_SIGNED, URI_A_ORG, STABLE, MAIN),
      LegacyLine("entry", DEB, OPT_ARCH, URI_B, TESTING, MAIN_CONTRIB),
      LegacyLine("off", DEB, <<>>, URI_A_ORG, STABLE, MAIN),
      LegacyLine("comment", <<>>, <<>>, <<>>, <<>>, <<>>),
      LegacyLine("blank", <<>>, <<>>, <<>>, <<>>, <<>>) }

EntryText(d) == LegacyEntry(d.type, d.options, d.uri, d.distribution, d.components)

\* the text of one line
LineOf(d) ==
    CASE d.kind = "entry" -> EntryText(d)
      [] d.kind = "off" -> HASH_SP \o EntryText(d)
      [] d.kind = "comment" -> NOTE
      [] d.kind = "bad" -> d.type \o <<SP>> \o d.uri
      [] OTHER -> <<>>

\* what a block of a DEB822 input is written from; kind "stanza", "note",
\* "headed" (a comment line, then the field lines), "nosuites" (a stanza that
\* lacks its Suites line)
Block(kind, disabled, types, uris, suites, components, signed_by) ==
    [kind |-> kind, disabled |-> disabled, types |-> types, uris |-> uris,
     suites |-> suites, components |-> components, signed_by |-> signed_by]

BlockChoices ==
    { Block("stanza", FALSE, <<DEB, DEB_SRC>>, <<URI_A, URI_B>>, <<STABLE>>, MAIN, KEY),
      Block("stanza", FALSE, <<DEB>>, <<URI_A_ORG>>, <<STABLE>>, MAIN, <<>>),
      Block("stanza", FALSE, <<DEB>>, <<URI_A_ORG>>, <<TESTING>>, MAIN, <<>>),
      Block("stanza", FALSE, <<DEB>>, <<URI_B>>, <<STABLE, TESTING>>, MAIN_CONTRIB, <<>>),
      Block("stanza", TRUE, <<DEB>>, <<URI_A_ORG>>, <<STABLE, TESTING>>, MAIN, KEY),
      Block("note", FALSE, <<>>, <<>>, <<>>, <<>>, <<>>) }

\* the lines of one block
BlockLines(d) ==
    LET fields == Stanza(d.disabled, Join(d.types, <<SP>>), Join(d.uris, <<SP>>),
                         Join(d.suites, <<SP>>), d.components, d.signed_by)
    IN  CASE d.kind = "note" -> << NOTE >>
          [] d.kind = "headed" -> << NOTE >> \o fields
          [] d.kind = "nosuites" -> SubSeq(fields, 1, 2) \o SubSeq(fields, 4, Len(fields))
          [] OTHER -> fields

\* the sequences of 1..n elements of S
SeqsUpTo(S, n) == UNION {[1..k -> S] : k \in 1..n}

\* the text of an input: lines ended by newlines; blocks an empty line apart
TextOf(path, src) ==
    IF Suffix(path) = DOT_SOURCES
    THEN Join([i \in 1..Len(src) |-> BlockLines(src[i])], << <<>> >>) \o << <<>> >>
    ELSE [i \in 1..Len(src) |-> LineOf(src[i])] \o << <<>> >>

\* RepoManager.__init__: nothing cached; no view, no save
ManagerIdle ==
    /\ disk = [f \in Paths |-> Absent]
    /\ writable = {}
    /\ repo_cache = NoCache
    /\ cache_valid = FALSE
    /\ repos = <<>>
    /\ repos_is_cache = FALSE
    /\ apply_sensitive = FALSE
    /\ ret = "none"
    /\ elevations = 0
    /\ outcome = [kind |-> "none"]
    /\ batch = {}

InitText ==
    /\ ManagerIdle
    /\ \/ file_path = sources_list /\ source \in SeqsUpTo(LegacyChoices, MaxLines)
       \/ file_path = extra_sources /\ source \in SeqsUpTo(BlockChoices, MaxStanzas)
    /\ text = TextOf(file_path, source)
    /\ parsed = <<>> /\ edited = <<>> /\ toggled = 0
    /\ generated = <<>> /\ reparsed = <<>>
    /\ stage = "input"
    /\ CallIdle

\* read_sources_file on the input
RunParse ==
    /\ stage = "input"
    /\ parsed' = read_sources_file(text, file_path)
    /\ stage' = "parsed"
    /\ UNCHANGED <<sysvars, callvars, source, text, file_path, edited, toggled, generated, reparsed>>

\* RepoRow._on_switch_state_set on the i-th record
RunToggle(i) ==
    /\ stage = "parsed"
    /\ i \in 1..Len(parsed)
    /\ edited' = [parsed EXCEPT ![i].disabled = ~@]
    /\ toggled' = i
    /\ stage' = "edited"
    /\ UNCHANGED <<sysvars, callvars, source, text, file_path, parsed, generated, reparsed>>

\* no switch is touched
RunKeep ==
    /\ stage = "parsed"
    /\ edited' = parsed
    /\ toggled' = 0
    /\ stage' = "edited"
    /\ UNCHANGED <<sysvars, callvars, source, text, file_path, parsed, generated, reparsed>>

\* the content the writer generates for the file
RunGenerate ==
    /\ stage = "edited"
    /\ generated' = GenerateContent(file_path, edited)
    /\ edited' = RecordsAfterGenerate(edited)
    /\ stage' = "generated"
    /\ UNCHANGED <<sysvars, callvars, source, text, file_path, parsed, toggled, reparsed>>

\* read_sources_file on the generated content
RunReparse ==
    /\ stage = "generated"
    /\ reparsed' = read_sources_file(generated, file_path)
    /\ stage' = "reparsed"
    /\ UNCHANGED <<sysvars, callvars, source, text, file_path, parsed, edited, toggled, generated>>

\* most records one input parses into
MaxRecords == 4 * MaxStanzas

NextText ==
    \/ RunParse
    \/ \E i \in 1..MaxRecords : RunToggle(i)
    \/ RunKeep
    \/ RunGenerate
    \/ RunReparse

SpecText == InitText /\ [][NextText]_vars

\* ------------------------------------------------------------------------
\* Properties of the safe writer and the directory service (Spec)
\* ------------------------------------------------------------------------

\* a save has just been attempted and failed
SaveFailed == ret = "False"

\* every destination of the last batch has the content it had before the step
DestinationsKept == \A f \in batch' : disk'[f] = disk[f]

\* C1: whenever the batch write returns failure, every destination file of
\* the batch has exactly the content it had before the call.
C1_AllOrNothing == [][ret' = "False" => DestinationsKept]_vars

\* C2: a batch of several destinations, one of them in a directory that is
\* not writable, with the elevation command missing: the call returns failure
\* and no destination file differs from its state before the call.
C2_NoElevationNoChange ==
    [][(/\ outcome'.kind = "pkexec_missing"
        /\ Cardinality(batch') >= 2
        /\ \E f \in batch' : Parent(f) \notin writable)
       => (ret' = "False" /\ DestinationsKept)]_vars

\* the case of C2 has happened: two destinations, one parent writable and one
\* not, the elevation command missing
C2_Witness ==
    /\ outcome.kind = "pkexec_missing"
    /\ Cardinality(batch) = 2
    /\ \E f \in batch : Parent(f) \notin writable
    /\ \E f \in batch : Parent(f) \in writable
    /\ SaveFailed

\* C3: one batch write runs the elevation command at most once, whatever the
\* number of destinations, and not at all when every destination's parent
\* directory is writable.
C3_ElevateAtMostOnce ==
    ret # "none" =>
        /\ elevations <= 1
        /\ (\A f \in batch : Parent(f) \in writable) => elevations = 0

\* a batch of two destinations was written through one run of the elevation
\* command
C3_Witness ==
    /\ ret = "True"
    /\ Cardinality(batch) = 2
    /\ \E f \in batch : Parent(f) \notin writable
    /\ elevations = 1

\* C4: the cache is replaced and marked valid only by a successful save; a
\* failed save leaves the validity flag and the cached set's contents as they
\* were before the call.
C4_CacheOnlyOnSuccess ==
    [][ret' = "False" => (cache_valid' = cache_valid /\ repo_cache' = repo_cache)]_vars

\* C5: a failed save leaves every record of the list passed to it with the
\* field values it had before the call, records without a file included.
C5_FailedSaveKeepsRecords == [][ret' = "False" => repos' = repos]_vars

\* ------------------------------------------------------------------------
\* Properties of the parser and the generator (SpecText)
\* ------------------------------------------------------------------------

HasParsed == stage \in {"parsed", "edited", "generated", "reparsed"}
HasGenerated == stage \in {"generated", "reparsed"}
HasReparsed == stage = "reparsed"
IsLegacyRun == stage # "idle" /\ file_path = sources_list
IsDeb822Run == stage # "idle" /\ file_path = extra_sources

\* a record without its position in the file
Unplaced(r) == [f \in DOMAIN r \ {"line", "block"} |-> r[f]]

\* C6: every line '# ' + a valid entry parses into one disabled record with
\* the type, uri, distribution and components of the entry, and generating
\* from the records writes the line with its '# ' again.
C6_DisabledLineIsRecord ==
    IsLegacyRun =>
        \A i \in 1..Len(source) :
            source[i].kind = "off" =>
                /\ HasParsed =>
                     Cardinality({k \in 1..Len(parsed) :
                                    /\ parsed[k].line = i
                                    /\ parsed[k].disabled
                                    /\ parsed[k].type = source[i].type
                                    /\ parsed[k].uri = source[i].uri
                                    /\ parsed[k].distribution = source[i].distribution
                                    /\ parsed[k].components = source[i].components}) = 1
                /\ (HasGenerated /\ toggled = 0) => LineOf(source[i]) \in Range(generated)

\* C7: after a record's switch was flipped, its file generated and read
\* again, some record read equals the original with the flipped disabled flag
\* (the position in the file, which the banner moves, is not compared).
C7_ToggleSymmetry ==
    (HasReparsed /\ toggled > 0) =>
        \E k \in 1..Len(reparsed) :
            Unplaced(reparsed[k]) = Unplaced([parsed[toggled] EXCEPT !.disabled = ~@])

\* a legacy input of entries and blank lines only
OnlyEntries ==
    IsLegacyRun /\ \A i \in 1..Len(source) : source[i].kind \in {"entry", "blank"}

\* C8 as amended: for a legacy file without disabled entries and comments,
\* parse, generate, parse yields the records of the first parse, equal in
\* every field but the line number: the k-th record is now on the k-th line
\* after the banner.
C8_LegacyRoundTrip ==
    (OnlyEntries /\ HasReparsed /\ toggled = 0) =>
        /\ Len(reparsed) = Len(parsed)
        /\ \A k \in 1..Len(parsed) :
              reparsed[k] = [parsed[k] EXCEPT !.line = Len(LegacyBanner) + k]

\* C8 as stated: the second parse is identical to the first in every field,
\* provenance included.
C8_AsStated == (OnlyEntries /\ HasReparsed /\ toggled = 0) => reparsed = parsed

\* an entry with options after a blank line went through parse, generate, parse
C8_Witness ==
    /\ OnlyEntries /\ HasReparsed /\ toggled = 0
    /\ \E i \in 1..Len(source) : source[i].kind = "blank"
    /\ \E k \in 1..Len(reparsed) : reparsed[k].raw_options # <<>> /\ reparsed[k].signed_by = KEY

\* the stanzas among the first i blocks of the input
StanzaRank(i) == Cardinality({k \in 1..i : source[k].kind = "stanza"})

\* the block of the generated text that holds the i-th input block's stanza
\* (the banner is the first block)
Emitted(i) == SplitBlocks(generated)[1 + StanzaRank(i)]

StanzaPrefix(d) == IF d.disabled THEN HASH_SP ELSE <<>>
UrisLine(d) == StanzaPrefix(d) \o <<"URIs", ":", SP>> \o Join(d.uris, <<SP>>)
SuitesLine(d) == StanzaPrefix(d) \o <<"Suites", ":", SP>> \o Join(d.suites, <<SP>>)

\* two stanzas of the input with the same URIs and different Suites
SameUriPair(i, j) ==
    /\ i < j
    /\ source[i].kind = "stanza" /\ source[j].kind = "stanza"
    /\ source[i].uris = source[j].uris
    /\ source[i].suites # source[j].suites

\* C9: two stanzas that share a URI and differ in Suites are generated, from
\* the parsed records, as two separate stanzas, each with its own URI/Suite
\* pairing; no stanzas are merged.
C9_BlockFidelity ==
    (IsDeb822Run /\ HasGenerated /\ toggled = 0) =>
        /\ Len(SplitBlocks(generated)) = 1 + StanzaRank(Len(source))
        /\ \A i, j \in 1..Len(source) :
              SameUriPair(i, j) =>
                 /\ {UrisLine(source[i]), SuitesLine(source[i])} \subseteq Range(Emitted(i))
                 /\ {UrisLine(source[j]), SuitesLine(source[j])} \subseteq Range(Emitted(j))
                 /\ SuitesLine(source[i]) \notin Range(Emitted(j))

\* such a pair was parsed and generated
C9_Witness ==
    /\ IsDeb822Run /\ HasGenerated /\ toggled = 0
    /\ \E i, j \in 1..Len(source) : SameUriPair(i, j) /\ ~source[i].disabled
    /\ Len(SplitBlocks(generated)) = 3

\* the records parsed from the b-th block of the input
RecordsOfBlock(b) ==
    LET InBlock(r) == r.block = b
    IN  SelectSeq(parsed, InBlock)

\* C10: a stanza with types T, URIs U and suites S parses into |T|*|U|*|S|
\* records, one per (type, uri, suite), each with the stanza's components and
\* signed-by, all with the stanza's 1-based block number.
C10_CrossProduct ==
    (IsDeb822Run /\ HasParsed) =>
        \A b \in 1..Len(source) :
            source[b].kind = "stanza" =>
                LET d == source[b]
                    recs == RecordsOfBlock(b)
                IN  /\ Len(recs) = Len(d.types) * Len(d.uris) * Len(d.suites)
                    /\ \A t \in 1..Len(d.types), u \in 1..Len(d.uris), x \in 1..Len(d.suites) :
                          Cardinality({k \in 1..Len(recs) :
                                         /\ recs[k].type = d.types[t]
                                         /\ recs[k].uri = d.uris[u]
                                         /\ recs[k].distribution = d.suites[x]}) = 1
                    /\ \A k \in 1..Len(recs) :
                          /\ recs[k].components = d.components
                          /\ recs[k].signed_by = d.signed_by

\* a stanza of two types, two URIs and one suite, second block of its file,
\* was parsed into four records
C10_Witness ==
    /\ IsDeb822Run /\ HasParsed
    /\ Len(source) = 2
    /\ source[2].kind = "stanza"
    /\ Len(source[2].types) = 2 /\ Len(source[2].uris) = 2 /\ Len(source[2].suites) = 1
    /\ Len(RecordsOfBlock(2)) = 4

\* ------------------------------------------------------------------------
\* Removal: RepoView deletes records and applies (SpecRemove)
\* ------------------------------------------------------------------------

\* the files of the systems removal is tried on
RemovalPaths == {sources_list, extra_sources}

\* a main file of two entries; a main file of one entry beside a fragment
\* whose stanza has two types and two URIs
RemovalDisks ==
    LET none == [f \in RemovalPaths |-> Absent]
        e1 == LegacyEntry(DEB, <<>>, URI_A_ORG, STABLE, MAIN)
        e2 == LegacyEntry(DEB, OPT_ARCH, URI_B, TESTING, MAIN_CONTRIB)
        st == Stanza(FALSE, Join(<<DEB, DEB_SRC>>, <<SP>>), Join(<<URI_A, URI_B>>, <<SP>>),
                     STABLE, MAIN, KEY)
    IN  { [none EXCEPT ![sources_list] = <<e1, e2, <<>> >>],
          [none EXCEPT ![sources_list] = <<e1, <<>> >>,
                       ![extra_sources] = st \o << <<>> >>] }

\* the state after MainWindow built its views on such a system
InitRemove ==
    /\ disk \in RemovalDisks
    /\ writable \in WritableChoices
    /\ repos = ReadAll(disk)
    /\ repo_cache = repos
    /\ cache_valid = TRUE
    /\ repos_is_cache = TRUE
    /\ apply_sensitive = FALSE
    /\ ret = "none"
    /\ elevations = 0
    /\ outcome = [kind |-> "none"]
    /\ batch = {}
    /\ RunIdle
    /\ CallIdle

\* most records such a system lists
MaxListed == 5

\* the only edits are removals; every save follows at least one of them
NextRemove ==
    \/ \E i \in 1..MaxListed : Delete(i)
    \/ \E env \in SaveOutcomes(repos) : Apply(env)

SpecRemove == InitRemove /\ [][NextRemove]_vars

\* the fields that say which repository a record is
Identity(r) ==
    [type |-> r.type, uri |-> r.uri, distribution |-> r.distribution,
     components |-> r.components, signed_by |-> r.signed_by,
     disabled |-> r.disabled, file |-> r.file]

\* C11: after records were removed and the save succeeded, every record a
\* fresh list reads back is a record of the saved set: no removed record
\* returns.
C11_RemovalPersisted ==
    [][ret' = "True" =>
          \A k \in 1..Len(repos') :
              \E j \in 1..Len(repos) : Identity(repos'[k]) = Identity(repos[j])]_vars

\* ------------------------------------------------------------------------
\* The services called directly (SpecWrite)
\* ------------------------------------------------------------------------

\* a failure that leaves its operation as an exception (faulty variant: no
\* handler anywhere)
NothingCaught(o) == o.kind \notin {"read_ok", "direct_ok", "pkexec_ok"}

\* the failure kinds raised outside every try block of read_sources_file,
\* write_sources_file, write_multiple_sources_files and save_repos: each
\* failing line lies inside the try of its operation
Unguarded == {}

\* the failure leaves the operation as an exception
Propagates(o) == o.kind \in Unguarded

\* a main file of one entry; a main file that cannot be read
WriteDisks ==
    LET none == [f \in Paths |-> Absent]
        e1 == LegacyEntry(DEB_SRC, OPT_SIGNED, URI_A_ORG, STABLE, MAIN)
    IN  { [none EXCEPT ![sources_list] = <<e1, <<>> >>],
          [none EXCEPT ![sources_list] = Unreadable] }

\* RepoManager.__init__ on such a system
InitWrite ==
    /\ disk \in WriteDisks
    /\ writable \in WritableChoices
    /\ repo_cache = NoCache
    /\ cache_valid = FALSE
    /\ repos = <<>>
    /\ repos_is_cache = FALSE
    /\ apply_sensitive = FALSE
    /\ ret = "none"
    /\ elevations = 0
    /\ outcome = [kind |-> "none"]
    /\ batch = {}
    /\ RunIdle
    /\ CallIdle

\* a record as the legacy parser lists it from line 1 of the main file
ListedRepo ==
    [disabled |-> FALSE, type |-> DEB_SRC, uri |-> URI_A_ORG, distribution |-> STABLE,
     components |-> MAIN, comment |-> <<>>, signed_by |-> KEY, file |-> sources_list,
     format |-> "legacy", line |-> 1, raw_options |-> OPT_SIGNED]

\* the lists a caller hands over: nothing, a listed record, a new record, or
\* a listed record and a new one
CallLists ==
    {<<>>, <<ListedRepo>>} \cup {<<r>> : r \in NewRepos}
    \cup {<<ListedRepo, r>> : r \in NewRepos}

\* what every direct call leaves alone
CallFrame ==
    UNCHANGED <<writable, repos, repos_is_cache, apply_sensitive, ret, elevations,
                outcome, batch, runvars>>

\* what a writer reports: its return value, whether an exception left it, the
\* temp files and the script it left on disk, and the outcome it met
Report(r, env, temps, script) ==
    [ret |-> r, raised |-> Propagates(env), temps |-> temps, script |-> script, env |-> env]

\* read_sources_file(f)
CallRead(f) ==
    /\ op' = "read_sources_file"
    /\ \E env \in {[kind |-> IF disk[f] = Unreadable THEN "read_error" ELSE "read_ok"]} :
          result' = [value |-> read_sources_file(disk[f], f), raised |-> Propagates(env),
                     env |-> env]
    /\ UNCHANGED <<disk, repo_cache, cache_valid>>
    /\ CallFrame

\* write_sources_file(f, list)
CallWriteOne(f, list, env) ==
    /\ op' = "write_sources_file"
    /\ \E w \in {write_sources_file(disk, writable, f, list, env)} :
          /\ disk' = w.disk
          /\ result' = Report(w.ret, env, w.temps, w.script)
    /\ UNCHANGED <<repo_cache, cache_valid>>
    /\ CallFrame

\* write_multiple_sources_files(repos_by_file)
CallWriteMany(list, env) ==
    /\ op' = "write_multiple_sources_files"
    /\ \E rbf \in {GroupByFile(AssignFiles(list), <<>>)} :
          /\ env \in WriteOutcomes(rbf, writable)
          /\ \E w \in {write_multiple_sources_files(disk, writable, rbf, env)} :
                /\ disk' = w.disk
                /\ result' = Report(w.ret, env, TempsLeft(rbf, env), ScriptLeft(env))
    /\ UNCHANGED <<repo_cache, cache_valid>>
    /\ CallFrame

\* save_repos(list)
CallSave(list, env) ==
    /\ op' = "save_repos"
    /\ \E rbf \in {GroupByFile(AssignFiles(list), <<>>)} :
          /\ env \in WriteOutcomes(rbf, writable)
          /\ \E sv \in {save_repos(list, FALSE, env)} :
                /\ disk' = sv.disk
                /\ repo_cache' = sv.repo_cache
                /\ cache_valid' = sv.cache_valid
                /\ result' = Report(sv.ret, env, TempsLeft(rbf, env), ScriptLeft(env))
    /\ CallFrame

\* every outcome a batch of at most MaxRepos files can meet
AnyWriteOutcome ==
    UNION {WriteOutcomes([i \in 1..n |-> [file |-> sources_list, repos |-> <<>>]], w) :
             n \in 0..MaxRepos, w \in {{}, Dirs}}

NextWrite ==
    \/ \E f \in Paths : CallRead(f)
    \/ \E f \in Paths : \E list \in CallLists : \E env \in OneOutcomes(f, writable) :
          CallWriteOne(f, list, env)
    \/ \E list \in CallLists : \E env \in AnyWriteOutcome : CallWriteMany(list, env)
    \/ \E list \in CallLists : \E env \in AnyWriteOutcome : CallSave(list, env)

SpecWrite == InitWrite /\ [][NextWrite]_vars

\* a write operation was called and returned failure
WriteFailed ==
    /\ op \in {"write_sources_file", "write_multiple_sources_files"}
    /\ ~result.ret

\* C12: after a single-file or batch write returned failure, for whatever
\* reason, no temp file of the call and no script is left on disk.
C12_NoTempLeft == WriteFailed => (result.temps = {} /\ ~result.script)

ParseLineChoices ==
    LegacyChoices \cup { LegacyLine("bad", DEB, <<>>, URI_B, <<>>, <<>>) }

\* the blocks of a DEB822 input: also a stanza under a comment line and a
\* stanza that lacks its Suites line
ParseBlockChoices ==
    BlockChoices
    \cup { Block("headed", FALSE, <<DEB>>, <<URI_B>>, <<TESTING>>, MAIN, <<>>),
           Block("nosuites", FALSE, <<DEB>>, <<URI_B>>, <<STABLE>>, MAIN, <<>>) }

InitParse ==
    /\ ManagerIdle
    /\ \/ file_path = sources_list /\ source \in SeqsUpTo(ParseLineChoices, MaxLines)
       \/ file_path = extra_sources /\ source \in SeqsUpTo(ParseBlockChoices, MaxStanzas)
    /\ text = TextOf(file_path, source)
    /\ parsed = <<>> /\ edited = <<>> /\ toggled = 0
    /\ generated = <<>> /\ reparsed = <<>>
    /\ stage = "input"
    /\ CallIdle

SpecParse == InitParse /\ [][NextText]_vars

\* the line or block of the input a record was read from
Position(r) == IF r.format = "legacy" THEN r.line ELSE r.block

\* the input item is a well-formed entry or stanza
WellFormed(d) == d.kind \in {"entry", "off", "stanza", "headed"}

\* the parsed list holds a record of item i with these fields
Listed(i, type, uri, distribution) ==
    \E k \in 1..Len(parsed) :
        /\ Position(parsed[k]) = i
        /\ parsed[k].type = type
        /\ parsed[k].uri = uri
        /\ parsed[k].distribution = distribution

\* item i of the input has yielded its records
Yielded(i) ==
    LET d == source[i]
    IN  IF d.kind \in {"entry", "off"}
        THEN Listed(i, d.type, d.uri, d.distribution)
        ELSE \A t \in 1..Len(d.types) : \A u \in 1..Len(d.uris) : \A x \in 1..Len(d.suites) :
                 Listed(i, d.types[t], d.uris[u], d.suites[x])

\* item i of the input has yielded no record
Skipped(i) == \A k \in 1..Len(parsed) : Position(parsed[k]) # i

\* C14: an unparsable line or stanza adds no record, and every well-formed
\* entry or stanza of the same file yields its records whatever precedes or
\* follows it.
C14_ParseSkip ==
    stage = "parsed" =>
        \A i \in 1..Len(source) :
            IF WellFormed(source[i]) THEN Yielded(i) ELSE Skipped(i)

\* every non-blank line of the block starts with '#'
AllCommented(d) ==
    \A n \in 1..Len(BlockLines(d)) :
        Strip(BlockLines(d)[n]) = <<>> \/ StartsWith(Strip(BlockLines(d)[n]), <<"#">>)

\* C19: the records of a stanza are disabled exactly when every non-blank
\* line of the stanza starts with '#'.
C19_DisabledIffAllCommented ==
    (stage = "parsed" /\ file_path = extra_sources) =>
        \A k \in 1..Len(parsed) :
            parsed[k].disabled <=> AllCommented(source[parsed[k].block])

\* ------------------------------------------------------------------------
\* The directory service listing (SpecList)
\* ------------------------------------------------------------------------

a_sources == PathJoin(sources_parts, <<"a">> \o DOT_SOURCES)
b_list == PathJoin(sources_parts, <<"b">> \o DOT_LIST)
a_bak == PathJoin(sources_parts, <<"a", ".", "bak">>)

ListPaths == {sources_list, a_sources, b_list, a_bak}

\* what each file holds when it exists: one entry in the main file, the same
\* entry twice in b.list and once in a.bak, one stanza in a.sources
ListContent(f) ==
    LET e1 == LegacyEntry(DEB, <<>>, URI_A_ORG, STABLE, MAIN)
    IN  CASE f = sources_list -> <<e1, <<>> >>
          [] f = b_list -> <<e1, e1, <<>> >>
          [] f = a_sources -> Stanza(FALSE, DEB, URI_B, STABLE, MAIN, <<>>) \o << <<>> >>
          [] OTHER -> <<e1, <<>> >>

\* RepoManager.__init__ on a system with some of the files
InitList ==
    /\ disk \in {[f \in ListPaths |-> IF f \in present THEN ListContent(f) ELSE Absent] :
                    present \in SUBSET ListPaths}
    /\ writable = {}
    /\ repo_cache = NoCache
    /\ cache_valid = FALSE
    /\ repos = <<>>
    /\ repos_is_cache = FALSE
    /\ apply_sensitive = FALSE
    /\ ret = "none"
    /\ elevations = 0
    /\ outcome = [kind |-> "none"]
    /\ batch = {}
    /\ RunIdle
    /\ CallIdle

\* get_all_repos(use_cache)
CallGetAll(use_cache) ==
    /\ op' = "get_all_repos"
    /\ \E g \in {get_all_repos(use_cache)} :
          /\ repo_cache' = g.repo_cache
          /\ cache_valid' = g.cache_valid
          /\ result' = [value |-> g.repos, read |-> g.read, use_cache |-> use_cache,
                        raised |-> FALSE]
    /\ UNCHANGED disk
    /\ CallFrame

\* invalidate_cache()
CallInvalidate ==
    /\ op' = "invalidate_cache"
    /\ cache_valid' = FALSE
    /\ repo_cache' = NoCache
    /\ result' = [raised |-> FALSE]
    /\ UNCHANGED disk
    /\ CallFrame

\* another program creates or removes a file
ExternalChange(f) ==
    /\ op' = "external"
    /\ disk' = [disk EXCEPT ![f] = IF @ = Absent THEN ListContent(f) ELSE Absent]
    /\ result' = [raised |-> FALSE]
    /\ UNCHANGED <<repo_cache, cache_valid>>
    /\ CallFrame

NextList ==
    \/ \E use_cache \in BOOLEAN : CallGetAll(use_cache)
    \/ CallInvalidate
    \/ \E f \in ListPaths : ExternalChange(f)

SpecList == InitList /\ [][NextList]_vars

\* a valid cache exists
ValidCache == cache_valid /\ repo_cache # NoCache

\* C15: a list with use_cache returns the cached set without reading when a
\* valid cache exists; every other list reads the files, returns what they
\* hold and leaves that as the valid cache.
C15_CacheIffValid ==
    [][op' = "get_all_repos" =>
          IF result'.use_cache /\ ValidCache
          THEN /\ ~result'.read
               /\ result'.value = repo_cache
               /\ UNCHANGED <<repo_cache, cache_valid>>
          ELSE /\ result'.read
               /\ repo_cache' = result'.value
               /\ cache_valid']_vars

\* a cached list that the files no longer back was returned without reading,
\* and a list after invalidate_cache has read the files
C15_Witness ==
    /\ op = "get_all_repos"
    /\ result.use_cache
    /\ ~result.read
    /\ \E f \in ListPaths : disk[f] = Absent /\ \E k \in 1..Len(result.value) : result.value[k].file = f

\* the records of the list read from file f, in list order
OfFile(list, f) == SelectSeq(list, LAMBDA r : r.file = f)

\* file f is one the listing reads
IsListed(f) ==
    \/ f = sources_list
    \/ Parent(f) = sources_parts /\ Suffix(f) \in {DOT_LIST, DOT_SOURCES}

\* file f is read before file g
ReadBefore(f, g) ==
    \/ f = sources_list /\ g # sources_list
    \/ f # sources_list /\ g # sources_list /\ StrLess(BaseName(f), BaseName(g))

\* C16: a list that read the files holds, for each file it reads, the
\* records of that file in file order and complete, the main file's first and
\* the fragments' in the order of their names; other files give nothing.
C16_ReadOrder ==
    (op = "get_all_repos" /\ result.read) =>
        /\ \A f \in ListPaths :
              OfFile(result.value, f) =
                  IF IsListed(f) THEN read_sources_file(disk[f], f) ELSE <<>>
        /\ \A k \in 1..Len(result.value) : \A n \in 1..Len(result.value) :
              (k < n /\ result.value[k].file # result.value[n].file)
                  => ReadBefore(result.value[k].file, result.value[n].file)

\* all four files exist and were read: the list has the main file's record,
\* then the stanza's, then both records of b.list
C16_Witness ==
    /\ op = "get_all_repos"
    /\ result.read
    /\ \A f \in ListPaths : disk[f] # Absent
    /\ Len(result.value) = 4
    /\ result.value[2].file = a_sources
    /\ result.value[3].file = b_list
    /\ result.value[4].file = b_list

\* ------------------------------------------------------------------------
\* The file assigned to a new record (SpecName)
\* ------------------------------------------------------------------------

URI_PORT == <<"http", ":", "/", "/", "a", ".", "org", ":", "8080", "/", "debian">>
URI_USER == <<"http", ":", "/", "/", "u", "@", "a", ".", "org", "/", "debian">>
STABLE_UPDATES == <<"stable", "/", "updates">>

\* the records the Add dialog can hand over
NameRepos ==
    { NewRepo(type, uri, distribution, components, signed_by) :
        type \in {DEB, DEB_SRC},
        uri \in {URI_A_ORG, URI_B, URI_SOPLOS, URI_PORT, URI_USER},
        distribution \in {STABLE, TESTING, STABLE_UPDATES},
        components \in {MAIN, MAIN_CONTRIB},
        signed_by \in {<<>>, KEY} }

InitName == ManagerIdle /\ RunIdle /\ CallIdle

\* _determine_file_for_repo(repo)
CallDetermine(repo) ==
    /\ op' = "_determine_file_for_repo"
    /\ result' = [repo |-> repo, value |-> _determine_file_for_repo(repo), raised |-> FALSE]
    /\ UNCHANGED <<disk, repo_cache, cache_valid>>
    /\ CallFrame

NextName == \E repo \in NameRepos : CallDetermine(repo)

SpecName == InitName /\ [][NextName]_vars

\* the characters that are neither letters nor digits
NonAlnum == {SP, "#", "[", "]", ":", "=", "/", ".", "-", "_", "@"}

\* the characters a replacement may put into a name
Replacement == {"_", "-"}

\* the name before its .list extension
Stem(path) == SubSeq(BaseName(path), 1, Len(BaseName(path)) - Len(DOT_LIST))

\* C17: the path assigned to a record without file depends on its uri and
\* distribution only; it is soplos.list in the fragment directory when the uri
\* contains 'soplos', and otherwise a .list file of the fragment directory
\* whose name holds no character that is neither letter nor digit except the
\* replacement characters.
C17_AssignedName ==
    op = "_determine_file_for_repo" =>
        /\ result.value = _determine_file_for_repo(
                              NewRepo(DEB, result.repo.uri, result.repo.distribution, <<>>, <<>>))
        /\ Parent(result.value) = sources_parts
        /\ EndsWith(BaseName(result.value), DOT_LIST)
        /\ IF Contains(result.repo.uri, <<"soplos">>)
           THEN BaseName(result.value) = <<"soplos">> \o DOT_LIST
           ELSE \A k \in 1..Len(Stem(result.value)) :
                    Stem(result.value)[k] \in NonAlnum => Stem(result.value)[k] \in Replacement

\* ------------------------------------------------------------------------
\* Properties of the content generator (SpecText)
\* ------------------------------------------------------------------------

SomeDisabledIn(b) == \E k \in 1..Len(edited) : edited[k].block = b /\ edited[k].disabled

\* C20: the stanza generated for a block has '# ' before every field line
\* when at least one record of the block is disabled, and before none
\* otherwise.
C20_DisabledIfAnyMember ==
    (IsDeb822Run /\ HasGenerated) =>
        \A i \in 1..Len(source) :
            source[i].kind = "stanza" =>
                IF SomeDisabledIn(i)
                THEN \A n \in 1..Len(Emitted(i)) : StartsWith(Emitted(i)[n], HASH_SP)
                ELSE \A n \in 1..Len(Emitted(i)) : ~StartsWith(Emitted(i)[n], <<"#">>)

\* one record of a stanza of several was switched off and the stanza was
\* written behind '# '
C20_Witness ==
    /\ IsDeb822Run /\ HasGenerated
    /\ \E i \in 1..Len(source) :
          /\ source[i].kind = "stanza"
          /\ SomeDisabledIn(i)
          /\ \E k \in 1..Len(edited) : edited[k].block = i /\ ~edited[k].disabled
          /\ Len(Emitted(i)) >= 3
          /\ \A n \in 1..Len(Emitted(i)) : StartsWith(Emitted(i)[n], HASH_SP)

\* ------------------------------------------------------------------------
\* The generators on record lists as callers build them (SpecGen)
\* ------------------------------------------------------------------------

\* longest record list generated from
MaxGen == 3

KEY2 == <<"/", "k2">>

\* SourcesGeneratorView._make_repo: no disabled key, no block
_make_repo(suite, components, signed_by, filename, uri) ==
    [type |-> DEB, uri |-> uri, distribution |-> suite, components |-> components,
     signed_by |-> signed_by, file |-> PathJoin(sources_parts, filename),
     format |-> "deb822"]

\* a record as the DEB822 parser lists it, its switch as the user left it
TaggedRepo(type, uri, distribution, signed_by, disabled, block) ==
    [disabled |-> disabled, type |-> type, uri |-> uri, distribution |-> distribution,
     components |-> MAIN, comment |-> <<>>, signed_by |-> signed_by,
     file |-> extra_sources, format |-> "deb822", block |-> block]

\* a record as the dialog returns it for a DEB822 file (no block)
DialogRepo(uri, distribution, signed_by, disabled) ==
    [NewRepo(DEB, uri, distribution, MAIN, signed_by)
        EXCEPT !.disabled = disabled, !.file = extra_sources, !.format = "deb822"]

Deb822Records ==
    { _make_repo(STABLE, MAIN, KEY, <<"extra">> \o DOT_SOURCES, URI_A),
      _make_repo(TESTING, MAIN, KEY, <<"extra">> \o DOT_SOURCES, URI_B),
      DialogRepo(URI_A, STABLE, <<>>, TRUE),
      DialogRepo(URI_B, STABLE, KEY2, FALSE),
      TaggedRepo(DEB, URI_A, STABLE, KEY, FALSE, 1),
      TaggedRepo(DEB, URI_B, STABLE, KEY, FALSE, 1),
      TaggedRepo(DEB_SRC, URI_A, TESTING, <<>>, TRUE, 2) }

\* a record as the legacy parser lists it, after RepoView._on_edit_repo put
\* signed_by into it: repo_data.update(new_data) keeps raw_options
EditedLegacy(raw_options, signed_by) ==
    [disabled |-> FALSE, type |-> DEB, uri |-> URI_A_ORG, distribution |-> STABLE,
     components |-> MAIN, comment |-> <<>>, signed_by |-> signed_by,
     file |-> sources_list, format |-> "legacy", line |-> 1, raw_options |-> raw_options]

LegacyRecords ==
    { EditedLegacy(<<>>, <<>>), EditedLegacy(<<>>, KEY),
      EditedLegacy(OPT_ARCH, <<>>), EditedLegacy(OPT_ARCH, KEY),
      EditedLegacy(OPT_SIGNED, KEY), EditedLegacy(OPT_SIGNED, KEY2),
      EditedLegacy(OPT_SIGNED, <<>>) }

soplos_list == PathJoin(sources_parts, <<"soplos">> \o DOT_LIST)

\* the records of a fragment soplos.list: read from its DEB822 text, read
\* from its legacy text, or new from the Add dialog and given this file by
\* save_repos
SoplosRecords ==
    { [TaggedRepo(DEB, URI_SOPLOS, STABLE, <<>>, FALSE, 1) EXCEPT !.file = soplos_list],
      [EditedLegacy(<<>>, <<>>) EXCEPT !.uri = URI_SOPLOS, !.file = soplos_list],
      [NewRepo(DEB, URI_SOPLOS, TESTING, MAIN, <<>>) EXCEPT !.file = soplos_list] }

InitGen ==
    /\ ManagerIdle
    /\ CallIdle
    /\ source = <<>> /\ text = <<>> /\ parsed = <<>> /\ toggled = 0
    /\ \/ file_path = extra_sources /\ edited \in SeqsUpTo(Deb822Records, MaxGen)
       \/ file_path = sources_list /\ edited \in SeqsUpTo(LegacyRecords, MaxGen)
       \/ file_path = soplos_list /\ edited \in SeqsUpTo(SoplosRecords, MaxGen)
    /\ generated = <<>> /\ reparsed = <<>>
    /\ stage = "edited"

NextGen == RunGenerate \/ RunReparse

SpecGen == InitGen /\ [][NextGen]_vars

\* no record of the list carries a block tag
Untagged == \A k \in 1..Len(edited) : "block" \notin DOMAIN edited[k]

\* C21: in the fallback branch the records are written one stanza per group,
\* and any two records of a group have equal disabled flags and equal
\* signed_by values.
C21_GroupsAgree ==
    (IsDeb822Run /\ HasGenerated /\ Untagged) =>
        LET groups == _group_similar_repos(edited)
        IN  /\ Len(SplitBlocks(generated)) = 1 + Len(groups)
            /\ \A g \in 1..Len(groups) : \A i \in 1..Len(groups[g]) : \A j \in 1..Len(groups[g]) :
                  /\ Get(groups[g][i], "disabled", FALSE) = Get(groups[g][j], "disabled", FALSE)
                  /\ groups[g][i].signed_by = groups[g][j].signed_by

\* three records without block were written as two stanzas, two of them
\* sharing one
C21_Witness ==
    /\ IsDeb822Run /\ HasGenerated /\ Untagged
    /\ Len(edited) = 3
    /\ Len(_group_similar_repos(edited)) = 2
    /\ Len(SplitBlocks(generated)) = 3

\* what a record says of its repository
Tuple(r) ==
    [type |-> r.type, uri |-> r.uri, distribution |-> r.distribution,
     components |-> r.components, signed_by |-> r.signed_by,
     disabled |-> Get(r, "disabled", FALSE)]

\* C27: reading the generated DEB822 text again yields exactly the tuples
\* of the records it was generated from.
C27_Deb822Lossless ==
    (IsDeb822Run /\ HasReparsed) =>
        {Tuple(reparsed[k]) : k \in 1..Len(reparsed)} = {Tuple(edited[k]) : k \in 1..Len(edited)}

\* the line generated for the k-th record of a legacy list
LineFor(k) == generated[Len(LegacyBanner) + k]

\* the options groups a line opens
Brackets(line) == Cardinality({n \in 1..Len(line) : line[n] = "["})

\* C28: the line generated for an enabled legacy record has at most one
\* options group, and reading it again yields a record with the type, uri,
\* distribution, components and signed_by of the record generated from.
C28_EditedKeyRoundTrip ==
    (IsLegacyRun /\ HasReparsed) =>
        /\ Len(reparsed) = Len(edited)
        /\ \A k \in 1..Len(edited) :
              /\ Brackets(LineFor(k)) <= 1
              /\ reparsed[k].type = edited[k].type
              /\ reparsed[k].uri = edited[k].uri
              /\ reparsed[k].distribution = edited[k].distribution
              /\ reparsed[k].components = edited[k].components
              /\ reparsed[k].signed_by = edited[k].signed_by

\* the generated text is in the DEB822 grammar
WrittenAsDeb822 == Len(generated) >= Len(Deb822Banner) /\ SubSeq(generated, 1, Len(Deb822Banner)) = Deb822Banner

\* the grammar a record names, by its format or else by the file's extension
NamedDeb822(r) ==
    IF "format" \in DOMAIN r THEN r.format = "deb822" ELSE Suffix(file_path) = DOT_SOURCES

\* C22: the text written for a file is in one grammar, and that is the
\* grammar each of the file's records names.
C22_OwnGrammar ==
    (HasGenerated /\ edited # <<>>) =>
        \A k \in 1..Len(edited) : WrittenAsDeb822 <=> NamedDeb822(edited[k])

\* ------------------------------------------------------------------------
\* Properties of save_repos (Spec)
\* ------------------------------------------------------------------------

\* the record with the file save_repos leaves in it
WithFile(r) ==
    IF r.file = None THEN [r EXCEPT !.file = _determine_file_for_repo(r)] ELSE r

\* C23: a save that succeeded has given every record a file, has written the
\* files the records name and no other, and has generated each file from the
\* records that name it, in the order of the list.
C23_Partition ==
    [][ret' = "True" =>
          LET assigned == [k \in 1..Len(repos) |-> WithFile(repos[k])]
          IN  /\ batch' = {assigned[k].file : k \in 1..Len(assigned)}
              /\ \A k \in 1..Len(assigned) : assigned[k].file \in Paths
              /\ \A f \in batch' : disk'[f] = GenerateContent(f, OfFile(assigned, f))]_vars

\* a save of two files succeeded, one of them the fragment a new record was
\* given
C23_Witness ==
    /\ ret = "True"
    /\ Cardinality(batch) = 2
    /\ \E f \in batch : Parent(f) = sources_parts /\ disk[f] # Absent

\* ------------------------------------------------------------------------
\* Properties of the writers' order of work (SpecWrite)
\* ------------------------------------------------------------------------

\* the outcomes in which staging did not complete: for one file the parent
\* directory, the temp file, its content or its mode; for a batch any file's
\* staging
StagingFailures == {"mkdir_error", "mkstemp_error", "write_error", "stage_error"}

\* the single-file writer's chmod of the temp file is part of its staging
StagingFailed(o) ==
    \/ o.kind \in StagingFailures
    \/ op' = "write_sources_file" /\ o.kind = "chmod_error"

\* C24: a write whose staging failed for any file has changed no
\* destination, and a destination that changed did so in a call that had
\* staged every file.
C24_StagedBeforePlaced ==
    [][op' \in {"write_sources_file", "write_multiple_sources_files", "save_repos"} =>
          /\ StagingFailed(result'.env) => disk' = disk
          /\ disk' # disk => ~StagingFailed(result'.env)]_vars

\* the batch writer staged its first file and failed on the second
C24_Witness ==
    /\ op = "write_multiple_sources_files"
    /\ result.env.kind = "stage_error"
    /\ result.env.at = 2
    /\ ~result.ret

\* ------------------------------------------------------------------------
\* The modes of the files written (SpecMode)
\* ------------------------------------------------------------------------
\* st_mode is a number: the file type bits, the set-id and sticky bits and the
\* nine permission bits. modes maps each path that exists to its st_mode.

\* 0o644
DEFAULT_MODE == 420
\* 0o777
PERM_MASK == 511
\* stat.S_IFREG, 0o100000
S_IFREG == 8 * 4096

\* mode & 0o777: the nine permission bits
PermBits(mode) == mode % (PERM_MASK + 1)

\* mode & 0o7777: the bits chmod(2) takes from its argument
ModeBits(mode) == mode % 4096

\* a writer that stages every temp file with 0o644 (faulty variant)
AlwaysDefault(modes, f) == DEFAULT_MODE

\* mode = file_path_obj.stat().st_mode if the destination exists, else 0o644
StagedMode(modes, f) == IF f \in DOMAIN modes THEN modes[f] ELSE DEFAULT_MODE

\* temp_path_obj.chmod(mode), Path(dest).chmod(mode): the regular file keeps
\* its type and takes the twelve mode bits of the argument
Chmod(mode) == S_IFREG + ModeBits(mode)

\* the script's chmod {perm_str} with perm = mode & 0o777
ScriptChmod(mode) == S_IFREG + PermBits(mode)

\* how many chmod lines of the script ran: all when it ran to its end; when
\* it failed after placed moves, the failing line was the chmod of the last
\* file moved or a line of the next file
ScriptChmods(rbf, env) ==
    CASE env.kind = "pkexec_ok" -> {Len(rbf)}
      [] env.kind = "script_failed" ->
            {c \in {env.placed - 1, env.placed} : c >= 0 /\ c < Len(rbf)} \cup
            (IF env.placed = 0 THEN {0} ELSE {})
      [] OTHER -> {0}

\* the modes after a batch write: a moved temp file brings the mode it was
\* staged with; the script then sets the permission bits alone
ModesAfterBatch(modes, rbf, env, chmods) ==
    [f \in DOMAIN modes \cup {rbf[i].file : i \in 1..MovedCount(rbf, env)} |->
        LET hits == {i \in 1..MovedCount(rbf, env) : rbf[i].file = f}
        IN  IF hits = {} THEN modes[f]
            ELSE IF Min(hits) <= chmods /\ env.kind \in {"pkexec_ok", "script_failed"}
                 THEN ScriptChmod(StagedMode(modes, f))
                 ELSE Chmod(StagedMode(modes, f))]

\* the modes after _write_file_safely: shutil.move and mv bring the temp
\* file's mode with them
ModesAfterOne(modes, f, env) ==
    IF env.kind \in {"direct_ok", "pkexec_ok"}
    THEN [g \in DOMAIN modes \cup {f} |->
            IF g = f THEN Chmod(StagedMode(modes, f)) ELSE modes[g]]
    ELSE modes

\* the modes files are found with: 0644, 0600, and 0664 with the set-group-id bit
FileModes == {S_IFREG + 420, S_IFREG + 384, S_IFREG + 1024 + 436}

\* the main file alone, or with the fragment a new record is assigned to
ModeDisks ==
    LET none == [f \in Paths |-> Absent]
        e1 == LegacyEntry(DEB_SRC, OPT_SIGNED, URI_A_ORG, STABLE, MAIN)
        e2 == LegacyEntry(DEB, <<>>, URI_A_ORG, STABLE, MAIN)
    IN  { [none EXCEPT ![sources_list] = <<e1, <<>> >>],
          [f \in Paths |-> IF f = sources_list THEN <<e1, <<>> >> ELSE <<e2, <<>> >>] }

\* RepoManager.__init__ on a system whose files have any of these modes;
\* result.st_mode holds the modes the last call left behind
InitMode ==
    /\ disk \in ModeDisks
    /\ writable \in WritableChoices
    /\ repo_cache = NoCache
    /\ cache_valid = FALSE
    /\ repos = <<>>
    /\ repos_is_cache = FALSE
    /\ apply_sensitive = FALSE
    /\ ret = "none"
    /\ elevations = 0
    /\ outcome = [kind |-> "none"]
    /\ batch = {}
    /\ RunIdle
    /\ op = "none"
    /\ \E m \in [Paths -> FileModes] :
          \E found \in {[f \in {g \in Paths : disk[g] # Absent} |-> m[f]]} :
              result = [ret |-> FALSE, env |-> [kind |-> "none"], dests |-> {},
                        before |-> found, st_mode |-> found]

\* write_sources_file(f, list) with the modes it finds and leaves
ModeWriteOne(f, list, env) ==
    /\ op' = "write_sources_file"
    /\ \E w \in {write_sources_file(disk, writable, f, list, env)} :
          /\ disk' = w.disk
          /\ result' = [ret |-> w.ret, env |-> env, dests |-> {f},
                        before |-> result.st_mode,
                        st_mode |-> ModesAfterOne(result.st_mode, f, env)]
    /\ UNCHANGED <<repo_cache, cache_valid>>
    /\ CallFrame

\* write_multiple_sources_files(repos_by_file) with the modes it finds and leaves
ModeWriteMany(list, env) ==
    /\ op' = "write_multiple_sources_files"
    /\ \E rbf \in {GroupByFile(AssignFiles(list), <<>>)} :
          /\ env \in Outcomes(rbf, writable)
          /\ \E w \in {write_multiple_sources_files(disk, writable, rbf, env)} :
             \E chmods \in ScriptChmods(rbf, env) :
                /\ disk' = w.disk
                /\ result' = [ret |-> w.ret, env |-> env,
                              dests |-> {rbf[i].file : i \in 1..Len(rbf)},
                              before |-> result.st_mode,
                              st_mode |-> ModesAfterBatch(result.st_mode, rbf, env, chmods)]
    /\ UNCHANGED <<repo_cache, cache_valid>>
    /\ CallFrame

\* every outcome a batch of at most MaxRepos files can meet
AnyOutcome ==
    UNION {Outcomes([i \in 1..n |-> [file |-> sources_list, repos |-> <<>>]], w) :
             n \in 0..MaxRepos, w \in {{}, Dirs}}

NextMode ==
    \/ \E f \in Paths : \E list \in CallLists : \E env \in OneOutcomes(f, writable) :
          ModeWriteOne(f, list, env)
    \/ \E list \in CallLists : \E env \in AnyOutcome : ModeWriteMany(list, env)

SpecMode == InitMode /\ [][NextMode]_vars

\* C25: after a write that returned success every destination of the call
\* has the permission bits it had before the call, or those of 0644 when it
\* did not exist before.
C25_ModeKept ==
    (op \in {"write_sources_file", "write_multiple_sources_files"} /\ result.ret) =>
        \A f \in result.dests :
            PermBits(result.st_mode[f]) =
                IF f \in DOMAIN result.before THEN PermBits(result.before[f])
                ELSE DEFAULT_MODE

\* the script placed a file that existed with a set-group-id mode and a file
\* that did not exist
C25_Witness ==
    /\ op = "write_multiple_sources_files"
    /\ result.ret
    /\ result.env.kind = "pkexec_ok"
    /\ \E f \in result.dests :
          /\ f \in DOMAIN result.before
          /\ ModeBits(result.before[f]) # PermBits(result.before[f])
          /\ result.before[f] # result.st_mode[f]

\* ------------------------------------------------------------------------
\* The cache after save_repos (SpecWrite)
\* ------------------------------------------------------------------------

\* the records of a list, by what identifies them
RecordSet(list) == {Identity(list[k]) : k \in 1..Len(list)}

\* C26: right after a successful save_repos the cache is valid and a listing
\* from the cache holds the same records as a fresh listing of the files.
C26_CacheCoherent ==
    [][(op' = "save_repos" /\ result'.ret) =>
          /\ cache_valid' /\ repo_cache' # NoCache
          /\ RecordSet(repo_cache') = RecordSet(ReadAll(disk'))]_vars

\* ------------------------------------------------------------------------
\* SourcesGeneratorView: the Generate Source List button (SpecSources)
\* ------------------------------------------------------------------------

SID == <<"sid">>
MIRROR == <<"http", ":", "/", "/", "deb", ".", "debian", ".", "org", "/", "debian">>
SEC_URI == <<"https", ":", "/", "/", "security", ".", "debian", ".", "org", "/",
             "debian", "-", "security", "/">>
KEYRING == <<"/", "usr", "/", "share", "/", "keyrings", "/", "debian", "-", "archive",
             "-", "keyring", ".", "gpg">>

debian_sources == <<"debian">> \o DOT_SOURCES
debian_security_sources == <<"debian", "-", "security">> \o DOT_SOURCES
debian_backports_sources == <<"debian", "-", "backports">> \o DOT_SOURCES

\* the records _on_generate_clicked appends for one distribution
DistroRepos(distro, comps_str, backports_enabled) ==
    << _make_repo(distro, comps_str, KEYRING, debian_sources, MIRROR) >>
    \o (IF distro \in {SID, <<"unstable">>, <<"experimental">>} THEN <<>>
        ELSE << _make_repo(distro \o <<"-", "updates">>, comps_str, KEYRING,
                           debian_sources, MIRROR) >>
             \o (IF distro = TESTING
                 THEN << _make_repo(distro \o <<"-", "proposed", "-", "updates">>, comps_str,
                                    KEYRING, debian_sources, MIRROR) >>
                 ELSE <<>>)
             \o << _make_repo(distro \o <<"-", "security">>, comps_str, KEYRING,
                              debian_security_sources, SEC_URI) >>
             \o (IF backports_enabled
                 THEN << _make_repo(distro \o <<"-", "backports">>, comps_str, KEYRING,
                                    debian_backports_sources, MIRROR) >>
                 ELSE <<>>))

\* the list built by the loop over selected_distros
RECURSIVE GeneratedRepos(_, _, _)
GeneratedRepos(distros, comps_str, backports_enabled) ==
    IF distros = <<>> THEN <<>>
    ELSE DistroRepos(Head(distros), comps_str, backports_enabled)
         \o GeneratedRepos(Tail(distros), comps_str, backports_enabled)

\* what the file system and the elevation command do to the removal:
\*   unlinked        os.unlink succeeds
\*   unlink_error    os.unlink raises something other than PermissionError
\*   rm_ok           PermissionError, then pkexec rm -f exits 0
\*   rm_failed       PermissionError, then pkexec exits non-zero
\*   pkexec_missing  PermissionError, then subprocess.run raises
RemoveOutcomes(w) ==
    IF sources_parts \in w THEN {"unlinked", "unlink_error"}
    ELSE {"rm_ok", "rm_failed", "pkexec_missing"}

\* SourcesGeneratorView._remove_debian_file: the files it leaves and the
\* number of times it ran the elevation command
_remove_debian_file(d, filename, rm) ==
    LET path == PathJoin(sources_parts, filename)
    IN  IF d[path] = Absent THEN [disk |-> d, elevations |-> 0]
        ELSE [disk |-> IF rm \in {"unlinked", "rm_ok"} THEN [d EXCEPT ![path] = Absent] ELSE d,
              elevations |-> IF rm \in {"rm_ok", "rm_failed", "pkexec_missing"} THEN 1 ELSE 0]

\* the files of the generator, each absent or as an earlier run wrote it
SourcesPaths ==
    {sources_list} \cup {PathJoin(sources_parts, n) :
                            n \in {debian_sources, debian_security_sources,
                                   debian_backports_sources}}

SourcesDisks ==
    LET earlier == GeneratedRepos(<<STABLE>>, MAIN, TRUE)
        written(f) == GenerateContent(f, OfFile(earlier, f))
    IN  {[f \in SourcesPaths |-> IF f \in present THEN written(f) ELSE Absent] :
            present \in SUBSET (SourcesPaths \ {sources_list})}

\* what the user has selected: distributions, components, the backports switch
SelectedDistros == {<<>>, <<STABLE>>, <<SID>>}
SelectedComponents == {MAIN}

\* every outcome a batch of the generator's files can meet
SourcesOutcomes ==
    UNION {Outcomes([i \in 1..n |-> [file |-> sources_list, repos |-> <<>>]], w) :
             n \in 0..Cardinality(SourcesPaths), w \in {{}, Dirs}}

\* SourcesGeneratorView.__init__: _detect_system_state has listed the files
InitSources ==
    /\ disk \in SourcesDisks
    /\ writable \in {{}, {sources_parts}}
    /\ repo_cache = ReadAll(disk)
    /\ cache_valid = TRUE
    /\ repos = <<>>
    /\ repos_is_cache = FALSE
    /\ apply_sensitive = FALSE
    /\ ret = "none"
    /\ elevations = 0
    /\ outcome = [kind |-> "none"]
    /\ batch = {}
    /\ RunIdle
    /\ CallIdle

\* SourcesGeneratorView._on_generate_clicked under one outcome of the removal
\* and one of the batch write; elevations counts the runs of the elevation
\* command during the handler
GenerateClicked(distros, comps_str, backports_enabled, rm, env) ==
    /\ op' = "_on_generate_clicked"
    /\ IF distros = <<>>
       THEN /\ result' = [raised |-> FALSE, message |-> "warning"]
            /\ ret' = "none"
            /\ elevations' = 0
            /\ outcome' = [kind |-> "none"]
            /\ batch' = {}
            /\ UNCHANGED <<disk, repo_cache, cache_valid>>
       ELSE \E list \in {GeneratedRepos(distros, comps_str, backports_enabled)} :
            \E removed \in {IF backports_enabled THEN [disk |-> disk, elevations |-> 0]
                             ELSE _remove_debian_file(disk, debian_backports_sources, rm)} :
            \E rbf \in {GroupByFile(AssignFiles(list), <<>>)} :
               /\ env \in Outcomes(rbf, writable)
               /\ \E w \in {write_multiple_sources_files(removed.disk, writable, rbf, env)} :
                     /\ disk' = w.disk
                     /\ repo_cache' = IF w.ret THEN list ELSE repo_cache
                     /\ cache_valid' = IF w.ret THEN TRUE ELSE cache_valid
                     /\ ret' = IF w.ret THEN "True" ELSE "False"
                     /\ elevations' = removed.elevations + w.elevations
                     /\ outcome' = env
                     /\ batch' = {rbf[i].file : i \in 1..Len(rbf)}
                     /\ result' = [raised |-> FALSE,
                                   message |-> IF w.ret THEN "info" ELSE "error"]
    /\ UNCHANGED <<writable, repos, repos_is_cache, apply_sensitive, runvars>>

NextSources ==
    \E distros \in SelectedDistros : \E comps_str \in SelectedComponents :
    \E backports_enabled \in BOOLEAN : \E rm \in RemoveOutcomes(writable) :
    \E env \in SourcesOutcomes :
        GenerateClicked(distros, comps_str, backports_enabled, rm, env)

SpecSources == InitSources /\ [][NextSources]_vars

\* C29: one press of Generate Source List runs the elevation command at
\* most once, the removal of debian-backports.sources and the batch write
\* counted together, and when it reports an error every file of the
\* fragment directory is as it was before the press.
C29_OneElevationOrUntouched ==
    [][op' = "_on_generate_clicked" =>
          /\ elevations' <= 1
          /\ result'.message = "error" =>
                \A f \in DOMAIN disk : Parent(f) = sources_parts => disk'[f] = disk[f]]_vars

\* ------------------------------------------------------------------------
\* RepoView with its periodic file check (SpecWatch)
\* ------------------------------------------------------------------------
\* result holds what the check works on: mtime, the modification time of each
\* file that exists; paths_mtime, the view's _paths_mtime; now, the clock.

\* latest time the clock reaches
MaxClock == 1

\* RepoView._snapshot_paths_mtime over sources_list and the children of
\* sources_parts: the time of each as a one-element tuple, the empty tuple
\* for the None of a path whose getmtime raises
Snapshot(d, mtime) ==
    [f \in {sources_list} \cup {g \in DOMAIN d : Parent(g) = sources_parts /\ d[g] # Absent} |->
        IF d[f] = Absent THEN <<>> ELSE <<mtime[f]>>]

\* the modification times after the files moved were placed at time t
Touched(mtime, moved, t) ==
    [f \in DOMAIN mtime \cup moved |-> IF f \in moved THEN t ELSE mtime[f]]

\* the state after RepoView.__init__: refresh_repos, then _start_autorefresh
InitWatch ==
    /\ disk \in InitialDisks
    /\ writable \in WritableChoices
    /\ repos = ReadAll(disk)
    /\ repo_cache = repos
    /\ cache_valid = TRUE
    /\ repos_is_cache = TRUE
    /\ apply_sensitive = FALSE
    /\ ret = "none"
    /\ elevations = 0
    /\ outcome = [kind |-> "none"]
    /\ batch = {}
    /\ RunIdle
    /\ op = "none"
    /\ \E found \in {[f \in {g \in Paths : disk[g] # Absent} |-> 0]} :
          result = [raised |-> FALSE, mtime |-> found,
                    paths_mtime |-> Snapshot(disk, found), now |-> 0]

\* RepoView._on_apply_clicked with the clock: the files moved into place
\* carry the time of the write
ApplyWatched(env) ==
    /\ apply_sensitive
    /\ result.now < MaxClock
    /\ \E sv \in {save_repos(repos, repos_is_cache, env)} :
       \E rbf \in {GroupByFile(AssignFiles(repos), <<>>)} :
          /\ disk' = sv.disk
          /\ ret' = IF sv.ret THEN "True" ELSE "False"
          /\ elevations' = sv.elevations
          /\ outcome' = env
          /\ batch' = sv.batch
          /\ repos' = IF sv.ret THEN ReadAll(sv.disk) ELSE sv.repos
          /\ repo_cache' = IF sv.ret THEN repos' ELSE sv.repo_cache
          /\ cache_valid' = sv.cache_valid
          /\ repos_is_cache' = sv.is_cache
          /\ apply_sensitive' = ~sv.ret
          /\ result' = [result EXCEPT
                          !.mtime = Touched(@, {rbf[i].file : i \in 1..MovedCount(rbf, env)},
                                            result.now + 1),
                          !.now = @ + 1]
    /\ UNCHANGED <<writable, runvars, op>>

\* another program rewrites a watched file
ExternalWrite(f) ==
    /\ result.now < MaxClock
    /\ disk' = [disk EXCEPT ![f] = << LegacyEntry(DEB, <<>>, URI_B, TESTING, MAIN), <<>> >>]
    /\ result' = [result EXCEPT !.mtime = Touched(@, {f}, result.now + 1), !.now = @ + 1]
    /\ UNCHANGED <<writable, repo_cache, cache_valid, repos, repos_is_cache, apply_sensitive,
                   ret, elevations, outcome, batch, runvars, op>>

\* RepoView._check_fs_changes: whether the check calls refresh_repos
RefreshesOnCheck(changed) == changed

\* RepoView._check_fs_changes, the 3-second timeout
CheckFsChanges ==
    /\ \E new_mtimes \in {Snapshot(disk, result.mtime)} :
          /\ result' = [result EXCEPT !.paths_mtime = new_mtimes]
          /\ IF RefreshesOnCheck(new_mtimes # result.paths_mtime)
             THEN \E g \in {ReadAll(disk)} :
                     /\ repos' = g
                     /\ repo_cache' = g
                     /\ cache_valid' = TRUE
                     /\ repos_is_cache' = TRUE
                     /\ apply_sensitive' = FALSE
             ELSE UNCHANGED <<repos, repo_cache, cache_valid, repos_is_cache, apply_sensitive>>
    /\ op' = "_check_fs_changes"
    /\ UNCHANGED <<disk, writable, ret, elevations, outcome, batch, runvars>>

NextWatch ==
    \/ Refresh
    \/ \E i \in 1..MaxRepos : Toggle(i)
    \/ \E r \in NewRepos : Add(r)
    \/ \E i \in 1..MaxRepos : Delete(i)
    \/ \E env \in SaveOutcomes(repos) : ApplyWatched(env)
    \/ \E f \in Paths : ExternalWrite(f)
    \/ CheckFsChanges

SpecWatch == InitWatch /\ [][NextWatch]_vars

\* C30: while the view holds edits that were not applied, a step of the
\* periodic check that finds the watched files changed leaves the view's
\* list as it is.
C30_EditsKept ==
    [][(apply_sensitive /\ result'.paths_mtime # result.paths_mtime) => repos' = repos]_vars

====
